---- MODULE Spec2Model ----
(***************************************************************************)
(* Model of the shot-list generator of ai-editor-agent                     *)
(* (src/src/generate_shotlist.py): the validator                           *)
(* validate_shot_list_format, and generate_shot_list_from_json with its    *)
(* repair step, over parsed JSON documents of arbitrary shape.             *)
(*                                                                         *)
(* Python values are tagged records: [t |-> "null"], [t |-> "int", v],     *)
(* [t |-> "str", v] (v a sequence of one-character strings),               *)
(* [t |-> "list", v] (v a sequence of values) and [t |-> "dict", v]        *)
(* (v a function from key strings, as character sequences, to values).     *)
(* An operation of the code that can raise yields                          *)
(* [raised |-> TRUE, exc |-> <exception type>].                            *)
(***************************************************************************)
EXTENDS Integers, Sequences, FiniteSets, TLC

VARIABLES
  pc,               \* position in generate_shot_list_from_json
  analysis_data,    \* content of the input JSON file
  output_json_path, \* None or a path
  all_filenames,    \* list built at lines 112-117
  videos_info,      \* list built at lines 111-145
  shot_list,        \* the parsed generator document
  is_valid,         \* result of the last validation
  error_message,    \* message of the last validation
  exception,        \* None, or the exception caught at line 297 and where it rose
  output_file,      \* None, or the document written at line 288
  result,           \* return value of generate_shot_list_from_json
  passes,           \* number of times the repair block has been applied
  folder,           \* analyze_videos_in_folder: os.listdir(folder_path)
  video_files,      \* analyze_videos_in_folder: the video files still to process
  all_analyses,     \* analyze_videos_in_folder: the result document
  output_json,      \* output path of the functions of ai_editor_utils.py
  content,          \* response.choices[0].message.content
  shot_list_text,   \* the text handed to json.loads
  raw_metadata,     \* extract_video_metadata: the parsed output of ffprobe
  metadata,         \* extract_video_metadata: the record built
  all_metadata      \* extract_metadata_from_folder: the result document

\* the variables generate_shot_list_from_json does not touch
other_vars ==
  <<folder, video_files, all_analyses, output_json, content, shot_list_text,
    raw_metadata, metadata, all_metadata>>

vars == <<pc, analysis_data, output_json_path, all_filenames, videos_info,
          shot_list, is_valid, error_message, exception, output_file, result,
          passes, other_vars>>

(***************************************************************************)
(* Bounds of the model.                                                    *)
(***************************************************************************)
MaxShots == 2

MaxVideos == 2

MaxTimeLen == 6

MaxTokens == 4

MaxStreams == 2

(***************************************************************************)
(* String literals of the source (and of the inputs), as character         *)
(* sequences.                                                              *)
(***************************************************************************)
Lit ==
  ("project_name" :> <<"p", "r", "o", "j", "e", "c", "t", "_", "n", "a", "m", "e">>) @@
  ("narrative_theme" :> <<"n", "a", "r", "r", "a", "t", "i", "v", "e", "_", "t", "h", "e", "m", "e">>) @@
  ("shots" :> <<"s", "h", "o", "t", "s">>) @@
  ("filename" :> <<"f", "i", "l", "e", "n", "a", "m", "e">>) @@
  ("description" :> <<"d", "e", "s", "c", "r", "i", "p", "t", "i", "o", "n">>) @@
  ("start_time" :> <<"s", "t", "a", "r", "t", "_", "t", "i", "m", "e">>) @@
  ("end_time" :> <<"e", "n", "d", "_", "t", "i", "m", "e">>) @@
  ("duration" :> <<"d", "u", "r", "a", "t", "i", "o", "n">>) @@
  ("transition_in" :> <<"t", "r", "a", "n", "s", "i", "t", "i", "o", "n", "_", "i", "n">>) @@
  ("transition_out" :> <<"t", "r", "a", "n", "s", "i", "t", "i", "o", "n", "_", "o", "u", "t">>) @@
  ("Missing required key: '" :> <<"M", "i", "s", "s", "i", "n", "g", " ", "r", "e", "q", "u", "i", "r", "e", "d", " ", "k", "e", "y", ":", " ", "'">>) @@
  ("'" :> <<"'">>) @@
  ("'shots' must be an array" :> <<"'", "s", "h", "o", "t", "s", "'", " ", "m", "u", "s", "t", " ", "b", "e", " ", "a", "n", " ", "a", "r", "r", "a", "y">>) @@
  ("'shots' array cannot be empty" :> <<"'", "s", "h", "o", "t", "s", "'", " ", "a", "r", "r", "a", "y", " ", "c", "a", "n", "n", "o", "t", " ", "b", "e", " ", "e", "m", "p", "t", "y">>) @@
  ("Shot " :> <<"S", "h", "o", "t", " ">>) @@
  (" is missing required key: '" :> <<" ", "i", "s", " ", "m", "i", "s", "s", "i", "n", "g", " ", "r", "e", "q", "u", "i", "r", "e", "d", " ", "k", "e", "y", ":", " ", "'">>) @@
  (": '" :> <<":", " ", "'">>) @@
  ("' must be a string" :> <<"'", " ", "m", "u", "s", "t", " ", "b", "e", " ", "a", " ", "s", "t", "r", "i", "n", "g">>) @@
  ("' must be in format 'HH:MM:SS'" :> <<"'", " ", "m", "u", "s", "t", " ", "b", "e", " ", "i", "n", " ", "f", "o", "r", "m", "a", "t", " ", "'", "H", "H", ":", "M", "M", ":", "S", "S", "'">>) @@
  ("' contains invalid time values" :> <<"'", " ", "c", "o", "n", "t", "a", "i", "n", "s", " ", "i", "n", "v", "a", "l", "i", "d", " ", "t", "i", "m", "e", " ", "v", "a", "l", "u", "e", "s">>) @@
  ("' must contain numeric values" :> <<"'", " ", "m", "u", "s", "t", " ", "c", "o", "n", "t", "a", "i", "n", " ", "n", "u", "m", "e", "r", "i", "c", " ", "v", "a", "l", "u", "e", "s">>) @@
  ("Shot list is missing the following files: " :> <<"S", "h", "o", "t", " ", "l", "i", "s", "t", " ", "i", "s", " ", "m", "i", "s", "s", "i", "n", "g", " ", "t", "h", "e", " ", "f", "o", "l", "l", "o", "w", "i", "n", "g", " ", "f", "i", "l", "e", "s", ":", " ">>) @@
  (", " :> <<",", " ">>) @@
  (":" :> <<":">>) @@
  ("videos" :> <<"v", "i", "d", "e", "o", "s">>) @@
  ("video_description" :> <<"v", "i", "d", "e", "o", "_", "d", "e", "s", "c", "r", "i", "p", "t", "i", "o", "n">>) @@
  ("content_analysis" :> <<"c", "o", "n", "t", "e", "n", "t", "_", "a", "n", "a", "l", "y", "s", "i", "s">>) @@
  ("content" :> <<"c", "o", "n", "t", "e", "n", "t">>) @@
  ("first_frame" :> <<"f", "i", "r", "s", "t", "_", "f", "r", "a", "m", "e">>) @@
  ("last_frame" :> <<"l", "a", "s", "t", "_", "f", "r", "a", "m", "e">>) @@
  ("First frame: " :> <<"F", "i", "r", "s", "t", " ", "f", "r", "a", "m", "e", ":", " ">>) @@
  ("\n\nLast frame: " :> <<"\n", "\n", "L", "a", "s", "t", " ", "f", "r", "a", "m", "e", ":", " ">>) @@
  ("metadata" :> <<"m", "e", "t", "a", "d", "a", "t", "a">>) @@
  ("duration_formatted" :> <<"d", "u", "r", "a", "t", "i", "o", "n", "_", "f", "o", "r", "m", "a", "t", "t", "e", "d">>) @@
  ("unknown" :> <<"u", "n", "k", "n", "o", "w", "n">>) @@
  ("duration_seconds" :> <<"d", "u", "r", "a", "t", "i", "o", "n", "_", "s", "e", "c", "o", "n", "d", "s">>) @@
  ("Video Project" :> <<"V", "i", "d", "e", "o", " ", "P", "r", "o", "j", "e", "c", "t">>) @@
  ("Compilation of available footage" :> <<"C", "o", "m", "p", "i", "l", "a", "t", "i", "o", "n", " ", "o", "f", " ", "a", "v", "a", "i", "l", "a", "b", "l", "e", " ", "f", "o", "o", "t", "a", "g", "e">>) @@
  ("Added shot from " :> <<"A", "d", "d", "e", "d", " ", "s", "h", "o", "t", " ", "f", "r", "o", "m", " ">>) @@
  ("00:00:00" :> <<"0", "0", ":", "0", "0", ":", "0", "0">>) @@
  ("00:01:00" :> <<"0", "0", ":", "0", "1", ":", "0", "0">>) @@
  ("cut" :> <<"c", "u", "t">>) @@
  ("a.mp4" :> <<"a", ".", "m", "p", "4">>) @@
  ("b.mp4" :> <<"b", ".", "m", "p", "4">>) @@
  ("z.mp4" :> <<"z", ".", "m", "p", "4">>) @@
  ("00:00:10" :> <<"0", "0", ":", "0", "0", ":", "1", "0">>) @@
  ("1:2:3" :> <<"1", ":", "2", ":", "3">>) @@
  ("00:75:00" :> <<"0", "0", ":", "7", "5", ":", "0", "0">>) @@
  ("fade" :> <<"f", "a", "d", "e">>) @@
  ("x" :> <<"x">>) @@
  ("out.json" :> <<"o", "u", "t", ".", "j", "s", "o", "n">>) @@
  ("audio_suggestions" :> <<"a", "u", "d", "i", "o", "_", "s", "u", "g", "g", "e", "s", "t", "i", "o", "n", "s">>) @@
  ("00:00:60" :> <<"0", "0", ":", "0", "0", ":", "6", "0">>) @@
  ("x:0:0" :> <<"x", ":", "0", ":", "0">>) @@
  (" 1: 2 :3 " :> <<" ", "1", ":", " ", "2", " ", ":", "3", " ">>) @@
  ("+1:0:0" :> <<"+", "1", ":", "0", ":", "0">>) @@
  ("1_0:0:0" :> <<"1", "_", "0", ":", "0", ":", "0">>) @@
  ("1:2" :> <<"1", ":", "2">>) @@
  ("1:2:3:4" :> <<"1", ":", "2", ":", "3", ":", "4">>) @@
  ("{}" :> <<"{", "}">>) @@
  (" " :> <<" ">>) @@
  ("\n" :> <<"\n">>) @@
  ("path" :> <<"p", "a", "t", "h">>) @@
  ("error" :> <<"e", "r", "r", "o", "r">>) @@
  ("Could not extract metadata" :> <<"C", "o", "u", "l", "d", " ", "n", "o", "t", " ", "e", "x", "t", "r", "a", "c", "t", " ", "m", "e", "t", "a", "d", "a", "t", "a">>) @@
  ("folder" :> <<"f", "o", "l", "d", "e", "r">>) @@
  ("scan_date" :> <<"s", "c", "a", "n", "_", "d", "a", "t", "e">>) @@
  ("total_videos" :> <<"t", "o", "t", "a", "l", "_", "v", "i", "d", "e", "o", "s">>) @@
  ("B.MOV" :> <<"B", ".", "M", "O", "V">>) @@
  ("n.txt" :> <<"n", ".", "t", "x", "t">>) @@
  ("f.jpg" :> <<"f", ".", "j", "p", "g">>) @@
  ("Error: Could not generate description." :> <<"E", "r", "r", "o", "r", ":", " ", "C", "o", "u", "l", "d", " ", "n", "o", "t", " ", "g", "e", "n", "e", "r", "a", "t", "e", " ", "d", "e", "s", "c", "r", "i", "p", "t", "i", "o", "n", ".">>) @@
  ("Error: Could not generate analysis." :> <<"E", "r", "r", "o", "r", ":", " ", "C", "o", "u", "l", "d", " ", "n", "o", "t", " ", "g", "e", "n", "e", "r", "a", "t", "e", " ", "a", "n", "a", "l", "y", "s", "i", "s", ".">>) @@
  (".mp4" :> <<".", "m", "p", "4">>) @@
  (".mkv" :> <<".", "m", "k", "v">>) @@
  (".avi" :> <<".", "a", "v", "i">>) @@
  (".mov" :> <<".", "m", "o", "v">>) @@
  (".wmv" :> <<".", "w", "m", "v">>) @@
  (".flv" :> <<".", "f", "l", "v">>) @@
  (".webm" :> <<".", "w", "e", "b", "m">>) @@
  (".m4v" :> <<".", "m", "4", "v">>) @@
  ("format" :> <<"f", "o", "r", "m", "a", "t">>) @@
  ("streams" :> <<"s", "t", "r", "e", "a", "m", "s">>) @@
  ("codec_type" :> <<"c", "o", "d", "e", "c", "_", "t", "y", "p", "e">>) @@
  ("video" :> <<"v", "i", "d", "e", "o">>) @@
  ("audio" :> <<"a", "u", "d", "i", "o">>) @@
  ("width" :> <<"w", "i", "d", "t", "h">>) @@
  ("height" :> <<"h", "e", "i", "g", "h", "t">>) @@
  ("codec_name" :> <<"c", "o", "d", "e", "c", "_", "n", "a", "m", "e">>) @@
  ("avg_frame_rate" :> <<"a", "v", "g", "_", "f", "r", "a", "m", "e", "_", "r", "a", "t", "e">>) @@
  ("display_aspect_ratio" :> <<"d", "i", "s", "p", "l", "a", "y", "_", "a", "s", "p", "e", "c", "t", "_", "r", "a", "t", "i", "o">>) @@
  ("size" :> <<"s", "i", "z", "e">>) @@
  ("bit_rate" :> <<"b", "i", "t", "_", "r", "a", "t", "e">>) @@
  ("filepath" :> <<"f", "i", "l", "e", "p", "a", "t", "h">>) @@
  ("filesize_mb" :> <<"f", "i", "l", "e", "s", "i", "z", "e", "_", "m", "b">>) @@
  ("resolution" :> <<"r", "e", "s", "o", "l", "u", "t", "i", "o", "n">>) @@
  ("resolution_name" :> <<"r", "e", "s", "o", "l", "u", "t", "i", "o", "n", "_", "n", "a", "m", "e">>) @@
  ("aspect_ratio" :> <<"a", "s", "p", "e", "c", "t", "_", "r", "a", "t", "i", "o">>) @@
  ("video_codec" :> <<"v", "i", "d", "e", "o", "_", "c", "o", "d", "e", "c">>) @@
  ("audio_codec" :> <<"a", "u", "d", "i", "o", "_", "c", "o", "d", "e", "c">>) @@
  ("bitrate" :> <<"b", "i", "t", "r", "a", "t", "e">>) @@
  ("fps" :> <<"f", "p", "s">>) @@
  ("8K" :> <<"8", "K">>) @@
  ("4K" :> <<"4", "K">>) @@
  ("2K" :> <<"2", "K">>) @@
  ("1080p" :> <<"1", "0", "8", "0", "p">>) @@
  ("720p" :> <<"7", "2", "0", "p">>) @@
  ("480p" :> <<"4", "8", "0", "p">>) @@
  ("SD" :> <<"S", "D">>) @@
  (" Mbps" :> <<" ", "M", "b", "p", "s">>) @@
  ("." :> <<".">>) @@
  ("/" :> <<"/">>) @@
  ("10.500000" :> <<"1", "0", ".", "5", "0", "0", "0", "0", "0">>) @@
  ("3661" :> <<"3", "6", "6", "1">>) @@
  ("1048576" :> <<"1", "0", "4", "8", "5", "7", "6">>) @@
  ("131072" :> <<"1", "3", "1", "0", "7", "2">>) @@
  ("8000000" :> <<"8", "0", "0", "0", "0", "0", "0">>) @@
  ("N/A" :> <<"N", "/", "A">>) @@
  ("16:9" :> <<"1", "6", ":", "9">>) @@
  ("h264" :> <<"h", "2", "6", "4">>) @@
  ("aac" :> <<"a", "a", "c">>) @@
  ("30000/1001" :> <<"3", "0", "0", "0", "0", "/", "1", "0", "0", "1">>) @@
  ("0/0" :> <<"0", "/", "0">>) @@
  ("25/1" :> <<"2", "5", "/", "1">>) @@
  ("0" :> <<"0">>) @@
  ("data" :> <<"d", "a", "t", "a">>) @@
  ("total_duration_seconds" :> <<"t", "o", "t", "a", "l", "_", "d", "u", "r", "a", "t", "i", "o", "n", "_", "s", "e", "c", "o", "n", "d", "s">>) @@
  ("total_duration_formatted" :> <<"t", "o", "t", "a", "l", "_", "d", "u", "r", "a", "t", "i", "o", "n", "_", "f", "o", "r", "m", "a", "t", "t", "e", "d">>) @@
  ("59.5" :> <<"5", "9", ".", "5">>) @@
  ("59" :> <<"5", "9">>) @@
  ("60" :> <<"6", "0">>) @@
  ("3599" :> <<"3", "5", "9", "9">>) @@
  ("3600" :> <<"3", "6", "0", "0">>) @@
  ("86399" :> <<"8", "6", "3", "9", "9">>) @@
  ("359999" :> <<"3", "5", "9", "9", "9", "9">>) @@
  ("360000" :> <<"3", "6", "0", "0", "0", "0">>) @@
  ("100:00:00" :> <<"1", "0", "0", ":", "0", "0", ":", "0", "0">>) @@
  ("~~~json" :> <<"~", "~", "~", "j", "s", "o", "n">>) @@
  ("~~~" :> <<"~", "~", "~">>) @@
  ("~" :> <<"~">>)

S(s) == Lit[s]

(***************************************************************************)
(* Python values and the built-in operations the code applies to them.     *)
(***************************************************************************)
None == [t |-> "null"]

True == [t |-> "bool", v |-> TRUE]

False == [t |-> "bool", v |-> FALSE]

PyInt(n) == [t |-> "int", v |-> n]

Str(s) == [t |-> "str", v |-> s]

List(xs) == [t |-> "list", v |-> xs]

Dict(f) == [t |-> "dict", v |-> f]

EmptyDict == Dict(<<>>)

Raise(e) == [raised |-> TRUE, exc |-> e]

Value(x) == [raised |-> FALSE, value |-> x]

\* continue with the value of r, or pass on the exception it raised
OnValue(r, K(_)) == IF r.raised THEN r ELSE K(r.value)

\* bool(x), as in `if x:` and `not x`
Truthy(x) ==
  CASE x.t = "null" -> FALSE
    [] x.t = "bool" -> x.v
    [] x.t = "int"  -> x.v # 0
    [] x.t = "str"  -> x.v # <<>>
    [] x.t = "list" -> x.v # <<>>
    [] x.t = "dict" -> DOMAIN x.v # {}

\* a in b for two strings: a is a substring of b
IsSubstring(a, b) ==
  \E i \in 0..(Len(b) - Len(a)) : SubSeq(b, i + 1, i + Len(a)) = a

\* whether `key in x` is defined (else it raises TypeError)
SupportsIn(x) == x.t \in {"dict", "list", "str"}

\* `key in x` for a string key and x a dict, a list or a str
In(key, x) ==
  CASE x.t = "dict" -> key \in DOMAIN x.v
    [] x.t = "list" -> \E i \in 1..Len(x.v) : x.v[i] = Str(key)
    [] x.t = "str"  -> IsSubstring(key, x.v)

\* `item in xs` for a list xs: some element equals item
InList(item, xs) == \E i \in 1..Len(xs) : xs[i] = item

\* x[key] for a string key: defined for a dict holding the key
GetItem(x, key) ==
  IF x.t # "dict" THEN Raise("TypeError")
  ELSE IF key \notin DOMAIN x.v THEN Raise("KeyError")
  ELSE Value(x.v[key])

\* x.get(key, default)
Get(x, key, default) ==
  IF x.t # "dict" THEN Raise("AttributeError")
  ELSE IF key \in DOMAIN x.v THEN Value(x.v[key])
  ELSE Value(default)

\* d[key] = value on a dict
SetItem(d, key, value) ==
  Dict([k \in DOMAIN d.v \cup {key} |-> IF k = key THEN value ELSE d.v[k]])

\* sep.join(parts) for a list of character sequences
RECURSIVE Join(_, _)
Join(sep, parts) ==
  IF parts = <<>> THEN <<>>
  ELSE IF Len(parts) = 1 THEN parts[1]
  ELSE parts[1] \o sep \o Join(sep, Tail(parts))

\* s.split(sep) for a one-character separator
\* the index of the first sep in s
FirstIndex(s, sep) ==
  CHOOSE i \in 1..Len(s) : s[i] = sep /\ \A j \in 1..(i - 1) : s[j] # sep

SplitAt(s, i) == <<SubSeq(s, 1, i - 1), SubSeq(s, i + 1, Len(s))>>

RECURSIVE Split(_, _)
Split(s, sep) ==
  IF \A i \in 1..Len(s) : s[i] # sep THEN <<s>>
  ELSE <<SplitAt(s, FirstIndex(s, sep))[1]>>
       \o Split(SplitAt(s, FirstIndex(s, sep))[2], sep)

DigitValue ==
  ("0" :> 0) @@ ("1" :> 1) @@ ("2" :> 2) @@ ("3" :> 3) @@ ("4" :> 4) @@
  ("5" :> 5) @@ ("6" :> 6) @@ ("7" :> 7) @@ ("8" :> 8) @@ ("9" :> 9)

IsDigit(c) == c \in DOMAIN DigitValue

IsSpace(c) == c \in {" ", "\t", "\n"}

\* s.strip()
RECURSIVE Strip(_)
Strip(s) ==
  IF s = <<>> THEN s
  ELSE IF IsSpace(s[1]) THEN Strip(Tail(s))
  ELSE IF IsSpace(s[Len(s)]) THEN Strip(SubSeq(s, 1, Len(s) - 1))
  ELSE s

RECURSIVE DecimalValue(_)
DecimalValue(digits) ==
  IF digits = <<>> THEN 0
  ELSE 10 * DecimalValue(SubSeq(digits, 1, Len(digits) - 1))
       + DigitValue[digits[Len(digits)]]

\* the digits of an int literal: decimal digits, with single underscores
\* between digits
WellFormedDigits(body) ==
  /\ body # <<>>
  /\ IsDigit(body[1])
  /\ IsDigit(body[Len(body)])
  /\ \A i \in 1..Len(body) :
       \/ IsDigit(body[i])
       \/ body[i] = "_" /\ IsDigit(body[i - 1]) /\ IsDigit(body[i + 1])

int_digits(body, negative) ==
  IF ~WellFormedDigits(body) THEN Raise("ValueError")
  ELSE IF negative THEN Value(0 - DecimalValue(SelectSeq(body, IsDigit)))
  ELSE Value(DecimalValue(SelectSeq(body, IsDigit)))

int_stripped(t) ==
  IF t # <<>> /\ t[1] \in {"+", "-"} THEN int_digits(Tail(t), t[1] = "-")
  ELSE int_digits(t, FALSE)

\* int(s) for a string: surrounding whitespace, an optional sign, then the
\* digits; anything else is ValueError
int(s) == int_stripped(Strip(s))

\* str(n) for a natural number, as an f-string formats it
DigitChar(d) == CHOOSE c \in DOMAIN DigitValue : DigitValue[c] = d

RECURSIVE IntToStr(_)
IntToStr(n) ==
  IF n < 10 THEN <<DigitChar(n)>>
  ELSE IntToStr(n \div 10) \o <<DigitChar(n % 10)>>

(***************************************************************************)
(* validate_shot_list_format (lines 25-85).  The result is                 *)
(* [raised |-> FALSE, is_valid, error_message], the returned pair, or      *)
(* [raised |-> TRUE, exc] when the function raises.                        *)
(***************************************************************************)
Return(valid, message) ==
  [raised |-> FALSE, is_valid |-> valid, error_message |-> message]

\* the outcome of a check that found nothing wrong; also the final
\* `return True, None`
Passed == Return(True, None)

\* the first check that does not pass decides
OrElse(r, rest) == IF r # Passed THEN r ELSE rest

required_keys == <<S("project_name"), S("narrative_theme"), S("shots")>>

shot_keys ==
  <<S("filename"), S("description"), S("start_time"), S("end_time"),
    S("duration"), S("transition_in"), S("transition_out")>>

time_keys == <<S("start_time"), S("end_time"), S("duration")>>

\* a faulty variant of MissingKeys: the missing keys in reverse order
MissingKeys_reversed(keys, x) ==
  [i \in 1..Len(SelectSeq(keys, LAMBDA k : ~In(k, x))) |->
     SelectSeq(keys, LAMBDA k : ~In(k, x))
       [Len(SelectSeq(keys, LAMBDA k : ~In(k, x))) + 1 - i]]

\* the keys of `keys`, in order, that are not `in` x
MissingKeys(keys, x) == SelectSeq(keys, LAMBDA k : ~In(k, x))

\* f"Shot {i+1}: '{key}", the start of the messages of lines 63-75
ShotKey(n, key) == S("Shot ") \o IntToStr(n) \o S(": '") \o key

\* a faulty variant of ValidTimeValues: the bound on minutes is off by one
ValidTimeValues_minutes60(hours, minutes, seconds) ==
  0 <= hours /\ 0 <= minutes /\ minutes <= 60 /\ 0 <= seconds /\ seconds < 60

\* line 72: 0 <= hours and 0 <= minutes < 60 and 0 <= seconds < 60
ValidTimeValues(hours, minutes, seconds) ==
  0 <= hours /\ 0 <= minutes /\ minutes < 60 /\ 0 <= seconds /\ seconds < 60

\* lines 70-75, given the results of int on the three parts
check_values(hours, minutes, seconds, where) ==
  IF hours.raised \/ minutes.raised \/ seconds.raised
  THEN Return(False, Str(where \o S("' must contain numeric values")))
  ELSE IF ~ValidTimeValues(hours.value, minutes.value, seconds.value)
  THEN Return(False, Str(where \o S("' contains invalid time values")))
  ELSE Passed

\* lines 67-75
check_parts(parts, where) ==
  IF Len(parts) # 3
  THEN Return(False, Str(where \o S("' must be in format 'HH:MM:SS'")))
  ELSE check_values(int(parts[1]), int(parts[2]), int(parts[3]), where)

\* lines 61-75 for one time field
check_time(time_str, where) ==
  IF time_str.t # "str"
  THEN Return(False, Str(where \o S("' must be a string")))
  ELSE check_parts(Split(time_str.v, ":"), where)

\* lines 60-75: the time keys in order, stopping at the first failure
RECURSIVE check_times(_, _, _)
check_times(shot, n, keys) ==
  IF keys = <<>> THEN Passed
  ELSE OnValue(GetItem(shot, Head(keys)),
               LAMBDA time_str :
                 OrElse(check_time(time_str, ShotKey(n, Head(keys))),
                        check_times(shot, n, Tail(keys))))

\* a faulty variant of check_shot_keys: only a missing `filename` is reported
check_shot_keys_filename(missing, shot, n) ==
  IF missing # <<>> /\ missing[1] = S("filename")
  THEN Return(False, Str(S("Shot ") \o IntToStr(n)
                         \o S(" is missing required key: '")
                         \o missing[1] \o S("'")))
  ELSE check_times(shot, n, time_keys)

\* lines 54-56, then the time checks
check_shot_keys(missing, shot, n) ==
  IF missing # <<>>
  THEN Return(False, Str(S("Shot ") \o IntToStr(n)
                         \o S(" is missing required key: '")
                         \o missing[1] \o S("'")))
  ELSE check_times(shot, n, time_keys)

\* lines 51-75: one shot, number n (n = i+1)
check_shot(shot, n) ==
  IF ~SupportsIn(shot) THEN Raise("TypeError")
  ELSE check_shot_keys(MissingKeys(shot_keys, shot), shot, n)

\* line 50: the shots in index order, stopping at the first failure
RECURSIVE check_shots(_, _)
check_shots(shots, n) ==
  IF n > Len(shots) THEN Passed
  ELSE OrElse(check_shot(shots[n], n), check_shots(shots, n + 1))

\* shot["filename"] for the elements of a list from index i on
RECURSIVE collect_filenames(_, _, _)
collect_filenames(shots, i, names) ==
  IF i > Len(shots) THEN Value(names)
  ELSE OnValue(GetItem(shots[i], S("filename")),
               LAMBDA f : collect_filenames(shots, i + 1, Append(names, f)))

\* [shot["filename"] for shot in shots] (lines 79, 250, 282)
shot_filenames(shots) ==
  IF shots.t \in {"null", "bool", "int"} THEN Raise("TypeError")
  ELSE IF shots.t \in {"str", "dict"}
  THEN \* the elements are strings, and a string has no item "filename"
       IF Truthy(shots) THEN Raise("TypeError") ELSE Value(<<>>)
  ELSE collect_filenames(shots.v, 1, <<>>)

\* a faulty variant of missing_files: every file counts as missing
missing_files_all(filenames, present) == filenames

\* [f for f in all_filenames if f not in shot_filenames] (lines 80, 251)
missing_files(filenames, present) ==
  SelectSeq(filenames, LAMBDA f : ~InList(f, present))

\* a faulty variant of join_files: the separator has no space
join_files_comma(files) ==
  IF \E i \in 1..Len(files) : files[i].t # "str" THEN Raise("TypeError")
  ELSE Value(Join(<<",">>, [i \in 1..Len(files) |-> files[i].v]))

\* ', '.join(files): TypeError unless every item is a string
join_files(files) ==
  IF \E i \in 1..Len(files) : files[i].t # "str" THEN Raise("TypeError")
  ELSE Value(Join(S(", "), [i \in 1..Len(files) |-> files[i].v]))

\* lines 82-83
report_missing(missing) ==
  IF missing = <<>> THEN Passed
  ELSE OnValue(join_files(missing),
               LAMBDA joined :
                 Return(False,
                        Str(S("Shot list is missing the following files: ")
                            \o joined)))

\* a faulty variant of check_filenames: the clip list is not consulted
check_filenames_skipped(shots, filenames) == Passed

\* lines 77-83
check_filenames(shots, filenames) ==
  IF ~Truthy(filenames) THEN Passed
  ELSE OnValue(shot_filenames(shots),
               LAMBDA present :
                 report_missing(missing_files(filenames.v, present)))

\* a faulty variant of check_shots_value: the missing clips are reported
\* before the entries are checked
check_shots_value_filenames_first(shots, filenames) ==
  IF shots.t # "list"
  THEN Return(False, Str(S("'shots' must be an array")))
  ELSE IF Len(shots.v) = 0
  THEN Return(False, Str(S("'shots' array cannot be empty")))
  ELSE OrElse(check_filenames(shots, filenames), check_shots(shots.v, 1))

\* a faulty variant of check_shots_value: emptiness is tested before the type
check_shots_value_empty_first(shots, filenames) ==
  IF ~Truthy(shots)
  THEN Return(False, Str(S("'shots' array cannot be empty")))
  ELSE IF shots.t # "list"
  THEN Return(False, Str(S("'shots' must be an array")))
  ELSE OrElse(check_shots(shots.v, 1), check_filenames(shots, filenames))

\* lines 42-85
check_shots_value(shots, filenames) ==
  IF shots.t # "list"
  THEN Return(False, Str(S("'shots' must be an array")))
  ELSE IF Len(shots.v) = 0
  THEN Return(False, Str(S("'shots' array cannot be empty")))
  ELSE OrElse(check_shots(shots.v, 1), check_filenames(shots, filenames))

\* lines 38-85
check_required(missing, doc, filenames) ==
  IF missing # <<>>
  THEN Return(False, Str(S("Missing required key: '") \o missing[1] \o S("'")))
  ELSE OnValue(GetItem(doc, S("shots")),
               LAMBDA shots : check_shots_value(shots, filenames))

validate_shot_list_format(doc, filenames) ==
  IF ~SupportsIn(doc) THEN Raise("TypeError")
  ELSE check_required(MissingKeys(required_keys, doc), doc, filenames)

(***************************************************************************)
(* generate_shot_list_from_json, lines 110-149: the scan of the input      *)
(* videos that builds all_filenames and videos_info.                       *)
(***************************************************************************)
\* a faulty variant of description_fields: content_analysis comes first
description_fields_reordered ==
  <<S("content_analysis"), S("video_description"), S("description"),
    S("content")>>

description_fields ==
  <<S("video_description"), S("content_analysis"), S("description"),
    S("content")>>

\* lines 120-124: the first field that is in the video with a truthy value
RECURSIVE find_description(_, _)
find_description(video, fields) ==
  IF fields = <<>> THEN Value(None)
  ELSE IF ~In(Head(fields), video) THEN find_description(video, Tail(fields))
  ELSE OnValue(GetItem(video, Head(fields)),
               LAMBDA d : IF Truthy(d) THEN Value(d)
                          ELSE find_description(video, Tail(fields)))

\* lines 130-131
compose_description(description, first_desc, last_desc) ==
  IF Truthy(first_desc) /\ Truthy(last_desc)
  THEN Value(Str(S("First frame: ") \o first_desc.v
                 \o S("\n\nLast frame: ") \o last_desc.v))
  ELSE Value(description)

\* lines 127-131: the description composed from the two frame descriptions
frame_description(video, description) ==
  IF Truthy(description) \/ ~In(S("first_frame"), video)
     \/ ~In(S("last_frame"), video)
  THEN Value(description)
  ELSE
    OnValue(GetItem(video, S("first_frame")), LAMBDA first_frame :
    OnValue(Get(first_frame, S("description"), Str(<<>>)), LAMBDA first_desc :
    OnValue(GetItem(video, S("last_frame")), LAMBDA last_frame :
    OnValue(Get(last_frame, S("description"), Str(<<>>)), LAMBDA last_desc :
      compose_description(description, first_desc, last_desc)))))

\* lines 133-145: the video_info of a described video
make_video_info(video, description) ==
  OnValue(Get(video, S("metadata"), EmptyDict), LAMBDA video_metadata :
  OnValue(Get(video_metadata, S("duration_formatted"), Str(S("unknown"))),
          LAMBDA duration_formatted :
  OnValue(Get(video_metadata, S("duration"), PyInt(0)), LAMBDA duration :
  OnValue(GetItem(video, S("filename")), LAMBDA filename :
    Value(Dict((S("filename") :> filename)
            @@ (S("content") :> description)
            @@ (S("duration") :> duration_formatted)
            @@ (S("duration_seconds") :> duration)))))))

\* lines 116-117
track_filename(video, filenames) ==
  IF ~In(S("filename"), video) THEN Value(filenames)
  ELSE OnValue(GetItem(video, S("filename")),
               LAMBDA f : Value(Append(filenames, f)))

\* lines 133-145
add_video_info(video, description, infos) ==
  IF ~Truthy(description) THEN Value(infos)
  ELSE OnValue(make_video_info(video, description),
               LAMBDA info : Value(Append(infos, info)))

\* lines 114-145 over the videos from index i on, with the two lists built
\* so far; the result holds both lists
RECURSIVE scan_videos(_, _, _, _)
scan_videos(videos, i, filenames, infos) ==
  IF i > Len(videos)
  THEN Value([all_filenames |-> List(filenames), videos_info |-> List(infos)])
  ELSE IF ~SupportsIn(videos[i]) THEN Raise("TypeError")
  ELSE
    OnValue(track_filename(videos[i], filenames), LAMBDA filenames2 :
    OnValue(find_description(videos[i], description_fields), LAMBDA found :
    OnValue(frame_description(videos[i], found), LAMBDA description :
    OnValue(add_video_info(videos[i], description, infos), LAMBDA infos2 :
      scan_videos(videos, i + 1, filenames2, infos2)))))

(***************************************************************************)
(* The repair block, lines 238-271, as a function of the document and the  *)
(* two lists: the repaired document, or the exception it raises.           *)
(***************************************************************************)
\* a faulty variant of set_default: the value is assigned even when the key
\* is there
set_default_overwrite(doc, key, value) ==
  IF ~SupportsIn(doc) \/ doc.t # "dict" THEN Raise("TypeError")
  ELSE Value(SetItem(doc, key, value))

\* shot_list[key] = value when key is not in shot_list (lines 239-246)
set_default(doc, key, value) ==
  IF ~SupportsIn(doc) THEN Raise("TypeError")
  ELSE IF In(key, doc) THEN Value(doc)
  ELSE IF doc.t # "dict" THEN Raise("TypeError")
  ELSE Value(SetItem(doc, key, value))

\* line 259: the first video_info from index i on whose filename is
\* `filename`, or None
RECURSIVE find_video_info(_, _, _)
find_video_info(infos, i, filename) ==
  IF i > Len(infos) THEN None
  ELSE IF infos[i].v[S("filename")] = filename THEN infos[i]
  ELSE find_video_info(infos, i + 1, filename)

\* a faulty variant of new_shot: the entry has no duration
new_shot_no_duration(filename, end_time) ==
  Dict((S("filename") :> filename)
    @@ (S("description") :> Str(S("Added shot from ") \o filename.v))
    @@ (S("start_time") :> Str(S("00:00:00")))
    @@ (S("end_time") :> end_time)
    @@ (S("transition_in") :> Str(S("cut")))
    @@ (S("transition_out") :> Str(S("cut"))))

\* a faulty variant of new_shot: the entry fades in
new_shot_fade(filename, end_time) ==
  Dict((S("filename") :> filename)
    @@ (S("description") :> Str(S("Added shot from ") \o filename.v))
    @@ (S("start_time") :> Str(S("00:00:00")))
    @@ (S("end_time") :> end_time)
    @@ (S("duration") :> end_time)
    @@ (S("transition_in") :> Str(S("fade")))
    @@ (S("transition_out") :> Str(S("cut"))))

\* lines 263-271: the entry added for a missing file; end_time is the value
\* of video_info.get("duration_formatted", "00:01:00")
new_shot(filename, end_time) ==
  Dict((S("filename") :> filename)
    @@ (S("description") :> Str(S("Added shot from ") \o filename.v))
    @@ (S("start_time") :> Str(S("00:00:00")))
    @@ (S("end_time") :> end_time)
    @@ (S("duration") :> end_time)
    @@ (S("transition_in") :> Str(S("cut")))
    @@ (S("transition_out") :> Str(S("cut"))))

added_shot(filename, video_info) ==
  new_shot(filename,
           Get(video_info, S("duration_formatted"), Str(S("00:01:00"))).value)

\* lines 261-271: shots.append(...) when the file has a video_info
append_shot(shots, filename, video_info) ==
  IF ~Truthy(video_info) THEN Value(shots)
  ELSE IF shots.t # "list" THEN Raise("AttributeError")
  ELSE Value(List(Append(shots.v, added_shot(filename, video_info))))

\* lines 257-271: the loop over the missing files; shots is the value of
\* shot_list["shots"]
RECURSIVE add_missing(_, _, _)
add_missing(shots, missing, infos) ==
  IF missing = <<>> THEN Value(shots)
  ELSE OnValue(append_shot(shots, Head(missing),
                           find_video_info(infos, 1, Head(missing))),
               LAMBDA shots2 : add_missing(shots2, Tail(missing), infos))

\* lines 253-271
append_missing(doc, shots, missing, infos) ==
  IF missing = <<>> THEN Value(doc)
  ELSE OnValue(join_files(missing), LAMBDA printed :
       OnValue(add_missing(shots, missing, infos), LAMBDA shots2 :
         Value(SetItem(doc, S("shots"), shots2))))

\* lines 248-271
add_missing_files(doc, filenames, infos) ==
  IF ~Truthy(filenames) THEN Value(doc)
  ELSE OnValue(GetItem(doc, S("shots")), LAMBDA shots :
       OnValue(shot_filenames(shots), LAMBDA present :
         append_missing(doc, shots, missing_files(filenames.v, present),
                        infos.v)))

\* lines 238-271
repair(doc, filenames, infos) ==
  OnValue(set_default(doc, S("shots"), List(<<>>)), LAMBDA d1 :
  OnValue(set_default(d1, S("project_name"), Str(S("Video Project"))),
          LAMBDA d2 :
  OnValue(set_default(d2, S("narrative_theme"),
                      Str(S("Compilation of available footage"))),
          LAMBDA d3 :
    add_missing_files(d3, filenames, infos))))

(***************************************************************************)
(* The inputs: the analysis file and the document parsed from the          *)
(* generator's response.                                                   *)
(***************************************************************************)
Without(d, key) == Dict([k \in DOMAIN d.v \ {key} |-> d.v[k]])

Filenames == {S("a.mp4"), S("b.mp4")}

Metadata ==
  Dict((S("duration_formatted") :> Str(S("00:00:10")))
    @@ (S("duration") :> PyInt(10)))

Frame(description) == Dict(S("description") :> description)

\* an entry as analyze_video builds it (ai_editor_utils.py, lines 236-248),
\* without the frame paths
Video(f, first, last, description) ==
  Dict((S("filename") :> Str(f))
    @@ (S("metadata") :> Metadata)
    @@ (S("first_frame") :> Frame(first))
    @@ (S("last_frame") :> Frame(last))
    @@ (S("video_description") :> description))

UsableVideo(f) == Video(f, Str(S("x")), Str(S("x")), Str(S("x")))

\* no description of any kind: the frames could not be extracted
UnusableVideo(f) == Video(f, None, None, None)

\* the frames were described and the content analysis was not
FramesVideo(f) == Video(f, Str(S("x")), Str(S("x")), None)

VideoChoices ==
  {UsableVideo(f) : f \in Filenames}
  \cup {UnusableVideo(S("b.mp4")), FramesVideo(S("b.mp4")),
        Without(UsableVideo(S("a.mp4")), S("filename"))}

Range(seq) == {seq[i] : i \in DOMAIN seq}

SeqsUpTo(set, n) == UNION {[1..k -> set] : k \in 0..n}

AnalysisChoices ==
  {Dict(S("videos") :> List(videos)) : videos \in SeqsUpTo(VideoChoices, MaxVideos)}
  \cup {EmptyDict}

Shot(f, t) ==
  Dict((S("filename") :> f)
    @@ (S("description") :> Str(S("x")))
    @@ (S("start_time") :> Str(S("00:00:00")))
    @@ (S("end_time") :> t)
    @@ (S("duration") :> t)
    @@ (S("transition_in") :> Str(S("fade")))
    @@ (S("transition_out") :> Str(S("cut"))))

GoodShot(f) == Shot(Str(f), Str(S("00:00:10")))

ShotChoices ==
  {GoodShot(f) : f \in Filenames \cup {S("z.mp4")}}
  \cup {Without(GoodShot(S("a.mp4")), S("filename")),
        Shot(Str(S("a.mp4")), Str(S("00:75:00"))),
        None}

ShotsChoices ==
  {List(shots) : shots \in SeqsUpTo(ShotChoices, MaxShots)}
  \cup {None, Str(<<>>), EmptyDict}

Document(shots) ==
  Dict((S("project_name") :> Str(S("x")))
    @@ (S("narrative_theme") :> Str(S("x")))
    @@ (S("shots") :> shots))

\* the documents with the given choices for "shots", with and without the
\* top-level keys, and the values that are not a mapping
DocsOver(choices) ==
  UNION {{Document(shots),
          Without(Document(shots), S("project_name")),
          Without(Document(shots), S("narrative_theme"))} :
         shots \in choices}
  \cup {EmptyDict,
        Dict(S("project_name") :> Str(S("x"))),
        Without(Document(None), S("shots")),
        Dict((S("project_name") :> Str(<<>>))
          @@ (S("narrative_theme") :> None)
          @@ (S("shots") :> List(<<>>))),
        None, PyInt(1), Str(S("x")), List(<<>>),
        List([i \in 1..3 |-> Str(required_keys[i])])}

DocChoices == DocsOver(ShotsChoices)

(***************************************************************************)
(* generate_shot_list_from_json as a state machine.                        *)
(***************************************************************************)
Raised(exc, at) == [exc |-> exc, at |-> at]

\* the variables of the other functions, before any of them has run
NoAnalyzer ==
  folder = None /\ video_files = None /\ all_analyses = None /\ output_json = None

NoResponse == content = None /\ shot_list_text = None

NoProbe == raw_metadata = None /\ metadata = None /\ all_metadata = None

Init ==
  /\ pc = "load"
  /\ analysis_data \in AnalysisChoices
  /\ output_json_path \in {None, Str(S("out.json"))}
  /\ all_filenames = None
  /\ videos_info = None
  /\ shot_list = None
  /\ is_valid = None
  /\ error_message = None
  /\ exception = None
  /\ output_file = None
  /\ result = None
  /\ passes = 0
  /\ NoAnalyzer /\ NoResponse /\ NoProbe

\* line 297: the exception is caught
Caught(exc, at) ==
  /\ pc' = "except"
  /\ exception' = Raised(exc, at)

\* lines 147-151, given the result of the scan
Scanned(scan) ==
  IF scan.raised
  THEN /\ Caught(scan.exc, "load")
       /\ UNCHANGED <<all_filenames, videos_info>>
  ELSE /\ all_filenames' = scan.value.all_filenames
       /\ videos_info' = scan.value.videos_info
       /\ pc' = IF Truthy(scan.value.videos_info) THEN "generate" ELSE "done"
       /\ UNCHANGED exception

\* lines 101-151 for an input that is a dict whose "videos", when present,
\* is a list
LoadAnalysis ==
  /\ pc = "load"
  /\ IF ~Truthy(analysis_data) \/ ~In(S("videos"), analysis_data)
        \/ ~Truthy(analysis_data.v[S("videos")])
     THEN /\ pc' = "done"
          /\ UNCHANGED <<all_filenames, videos_info, exception>>
     ELSE Scanned(scan_videos(analysis_data.v[S("videos")].v, 1, <<>>, <<>>))
  /\ UNCHANGED <<other_vars, analysis_data, output_json_path, shot_list, is_valid,
                 error_message, output_file, result, passes>>

\* lines 153-230: the call of the generator and the parse of its response
Generate ==
  /\ pc = "generate"
  /\ \/ /\ Caught("APIError", "generate")
        /\ UNCHANGED shot_list
     \/ /\ pc' = "done"   \* json.JSONDecodeError, line 230
        /\ UNCHANGED <<shot_list, exception>>
     \/ /\ shot_list' \in DocChoices
        /\ pc' = "validate"
        /\ UNCHANGED exception
  /\ UNCHANGED <<other_vars, analysis_data, output_json_path, all_filenames, videos_info,
                 is_valid, error_message, output_file, result, passes>>

\* the assignment of lines 233 and 274, given the validator's result, and
\* the branch taken after it
Validated(r, at, failed) ==
  /\ IF r.raised
     THEN /\ Caught(r.exc, at)
          /\ UNCHANGED <<is_valid, error_message>>
     ELSE /\ is_valid' = r.is_valid
          /\ error_message' = r.error_message
          /\ pc' = IF r.is_valid = True THEN "count" ELSE failed
          /\ UNCHANGED exception
  /\ UNCHANGED <<other_vars, analysis_data, output_json_path, all_filenames, videos_info,
                 shot_list, output_file, result, passes>>

\* lines 233-236 and 278-279
Validate ==
  /\ pc = "validate"
  /\ Validated(validate_shot_list_format(shot_list, all_filenames),
               "validate", "repair")

\* the effect of lines 238-271, given the result of the repair
Repaired(r) ==
  /\ IF r.raised
     THEN /\ Caught(r.exc, "repair")
          /\ UNCHANGED <<shot_list, passes>>
     ELSE /\ shot_list' = r.value
          /\ passes' = passes + 1
          /\ pc' = "revalidate"
          /\ UNCHANGED exception
  /\ UNCHANGED <<other_vars, analysis_data, output_json_path, all_filenames, videos_info,
                 is_valid, error_message, output_file, result>>

\* lines 238-271
Repair ==
  /\ pc = "repair"
  /\ Repaired(repair(shot_list, all_filenames, videos_info))

\* lines 273-277
Revalidate ==
  /\ pc = "revalidate"
  /\ passes = 1
  /\ Validated(validate_shot_list_format(shot_list, all_filenames),
               "revalidate", "count")

\* line 282, given the list of the shots' filenames
Counted(names) ==
  /\ IF names.raised
     THEN Caught(names.exc, "count")
     ELSE /\ pc' = "save"
          /\ UNCHANGED exception
  /\ UNCHANGED <<other_vars, analysis_data, output_json_path, all_filenames, videos_info,
                 shot_list, is_valid, error_message, output_file, result,
                 passes>>

\* lines 281-283
CountIncluded ==
  /\ pc = "count"
  /\ Counted(OnValue(GetItem(shot_list, S("shots")), shot_filenames))

\* a faulty variant of Save: the written document gets the default name
Save_default_name ==
  /\ pc = "save"
  /\ output_file' = IF Truthy(output_json_path)
                    THEN SetItem(shot_list, S("project_name"),
                                 Str(S("Video Project")))
                    ELSE output_file
  /\ result' = shot_list
  /\ pc' = "done"
  /\ UNCHANGED <<other_vars, analysis_data, output_json_path, all_filenames, videos_info,
                 shot_list, is_valid, error_message, exception, passes>>

\* lines 285-295
Save ==
  /\ pc = "save"
  /\ output_file' = IF Truthy(output_json_path) THEN shot_list ELSE output_file
  /\ result' = shot_list
  /\ pc' = "done"
  /\ UNCHANGED <<other_vars, analysis_data, output_json_path, all_filenames, videos_info,
                 shot_list, is_valid, error_message, exception, passes>>

\* a faulty variant of Except: the document parsed so far is returned
Except_returns_document ==
  /\ pc = "except"
  /\ result' = shot_list
  /\ pc' = "done"
  /\ UNCHANGED <<other_vars, analysis_data, output_json_path, all_filenames, videos_info,
                 shot_list, is_valid, error_message, exception, output_file,
                 passes>>

\* lines 297-299
Except ==
  /\ pc = "except"
  /\ result' = None
  /\ pc' = "done"
  /\ UNCHANGED <<other_vars, analysis_data, output_json_path, all_filenames, videos_info,
                 shot_list, is_valid, error_message, exception, output_file,
                 passes>>

Next ==
  \/ LoadAnalysis
  \/ Generate
  \/ Validate
  \/ Repair
  \/ Revalidate
  \/ CountIncluded
  \/ Save
  \/ Except

Spec == Init /\ [][Next]_vars

(***************************************************************************)
(* The validator alone, on a wider set of documents and clip lists:        *)
(* entries lacking each field, entries that are no mapping, and time       *)
(* fields over every string of a small alphabet.                           *)
(***************************************************************************)
ValidatorShotChoices ==
  ShotChoices
  \cup {Without(GoodShot(S("a.mp4")), key) : key \in Range(shot_keys)}
  \cup {Shot(None, Str(S("00:00:10"))), PyInt(1), Str(S("x")),
        List([i \in 1..7 |-> Str(shot_keys[i])])}

ValidatorDocs ==
  DocsOver({List(shots) : shots \in SeqsUpTo(ValidatorShotChoices, MaxShots)}
           \cup {None, Str(<<>>), EmptyDict, PyInt(0), PyInt(1), False,
                 Str(S("x")), Dict(S("filename") :> Str(S("a.mp4")))})

FilenameLists ==
  {List(fs) : fs \in SeqsUpTo({Str(f) : f \in Filenames}, MaxVideos)}
  \cup {None}

TimeAlphabet == {"0", "6", ":", "-"}

TimeStrings ==
  SeqsUpTo(TimeAlphabet, MaxTimeLen)
  \cup {S("00:00:10"), S("1:2:3"), S("00:75:00"), S("00:00:60"), S("x:0:0"),
        S(" 1: 2 :3 "), S("+1:0:0"), S("1_0:0:0"), S("1:2"), S("1:2:3:4")}

TimeValues == {Str(s) : s \in TimeStrings} \cup {None, PyInt(10)}

\* one shot for a.mp4 whose time field `key` holds `value`
TimeDocs ==
  {Document(List(<<SetItem(GoodShot(S("a.mp4")), key, value)>>)) :
     key \in Range(time_keys), value \in TimeValues}

InitValidate ==
  /\ pc = "validate"
  /\ \/ shot_list \in ValidatorDocs /\ all_filenames \in FilenameLists
     \/ shot_list \in TimeDocs /\ all_filenames = List(<<Str(S("a.mp4"))>>)
  /\ analysis_data = None
  /\ output_json_path = None
  /\ videos_info = None
  /\ is_valid = None
  /\ error_message = None
  /\ exception = None
  /\ output_file = None
  /\ result = None
  /\ passes = 0
  /\ NoAnalyzer /\ NoResponse /\ NoProbe

NextValidate == Validate

SpecValidate == InitValidate /\ [][NextValidate]_vars

(***************************************************************************)
(* The repair block applied a second time to its own result.               *)
(***************************************************************************)
RepairAgain ==
  /\ pc = "revalidate"
  /\ passes = 1
  /\ Repaired(repair(shot_list, all_filenames, videos_info))

NextRepairTwice ==
  \/ LoadAnalysis
  \/ Generate
  \/ Validate
  \/ Repair
  \/ RepairAgain

SpecRepairTwice == Init /\ [][NextRepairTwice]_vars

(***************************************************************************)
(* generate_shot_list_from_analysis (ai_editor_utils.py, lines 351-451):   *)
(* the other function that asks the generator for a shot list and writes   *)
(* it.                                                                     *)
(***************************************************************************)
\* ai_editor_utils.py, lines 372-377
analysis_video_info(video) ==
  OnValue(GetItem(video, S("filename")), LAMBDA filename :
  OnValue(GetItem(video, S("video_description")), LAMBDA description :
  OnValue(GetItem(video, S("metadata")), LAMBDA video_metadata :
  OnValue(Get(video_metadata, S("duration_formatted"), Str(S("unknown"))),
          LAMBDA duration_formatted :
  OnValue(Get(video_metadata, S("duration"), PyInt(0)), LAMBDA duration :
    Value(Dict((S("filename") :> filename)
            @@ (S("content") :> description)
            @@ (S("duration") :> duration_formatted)
            @@ (S("duration_seconds") :> duration))))))))

\* ai_editor_utils.py, lines 371-378
add_analysis_video_info(video, described, infos) ==
  IF ~Truthy(described) THEN Value(infos)
  ELSE OnValue(analysis_video_info(video),
               LAMBDA info : Value(Append(infos, info)))

\* ai_editor_utils.py, lines 369-378, over the videos from index i on
RECURSIVE scan_analysis(_, _, _)
scan_analysis(videos, i, infos) ==
  IF i > Len(videos) THEN Value(List(infos))
  ELSE IF ~SupportsIn(videos[i]) THEN Raise("TypeError")
  ELSE IF ~In(S("video_description"), videos[i])
  THEN scan_analysis(videos, i + 1, infos)
  ELSE
    OnValue(GetItem(videos[i], S("video_description")), LAMBDA described :
    OnValue(add_analysis_video_info(videos[i], described, infos),
            LAMBDA infos2 : scan_analysis(videos, i + 1, infos2)))

InitFromAnalysis ==
  /\ pc = "analysis"
  /\ analysis_data \in AnalysisChoices
  /\ output_json \in {None, Str(S("out.json"))}
  /\ output_json_path = None
  /\ all_filenames = None
  /\ videos_info = None
  /\ shot_list = None
  /\ is_valid = None
  /\ error_message = None
  /\ exception = None
  /\ output_file = None
  /\ result = None
  /\ passes = 0
  /\ folder = None /\ video_files = None /\ all_analyses = None
  /\ NoResponse /\ NoProbe

\* lines 369-385, given the result of the scan; an exception raised here is
\* outside the try block and leaves the function
AnalysisScanned(scan) ==
  IF scan.raised
  THEN /\ exception' = Raised(scan.exc, "analysis")
       /\ pc' = "done"
       /\ UNCHANGED videos_info
  ELSE /\ videos_info' = scan.value
       /\ pc' = "analysis_generate"
       /\ UNCHANGED exception

\* ai_editor_utils.py, lines 362-385
AnalysisStart ==
  /\ pc = "analysis"
  /\ IF ~Truthy(analysis_data) \/ ~In(S("videos"), analysis_data)
        \/ ~Truthy(analysis_data.v[S("videos")])
     THEN /\ pc' = "done"
          /\ UNCHANGED <<videos_info, exception>>
     ELSE AnalysisScanned(scan_analysis(analysis_data.v[S("videos")].v, 1, <<>>))
  /\ UNCHANGED <<analysis_data, output_json_path, all_filenames, shot_list,
                 is_valid, error_message, output_file, result, passes,
                 other_vars>>

\* ai_editor_utils.py, lines 387-439: the call of the generator and the parse
\* of its response; both failures are caught at line 449
AnalysisGenerate ==
  /\ pc = "analysis_generate"
  /\ \/ /\ Caught("APIError", "analysis_generate")
        /\ UNCHANGED shot_list
     \/ /\ Caught("JSONDecodeError", "analysis_generate")
        /\ UNCHANGED shot_list
     \/ /\ shot_list' \in DocChoices
        /\ pc' = "analysis_save"
        /\ UNCHANGED exception
  /\ UNCHANGED <<analysis_data, output_json_path, all_filenames, videos_info,
                 is_valid, error_message, output_file, result, passes,
                 other_vars>>

\* ai_editor_utils.py, lines 441-447
AnalysisSave ==
  /\ pc = "analysis_save"
  /\ output_file' = IF Truthy(output_json) THEN shot_list ELSE output_file
  /\ result' = shot_list
  /\ pc' = "done"
  /\ UNCHANGED <<analysis_data, output_json_path, all_filenames, videos_info,
                 shot_list, is_valid, error_message, exception, passes,
                 other_vars>>

NextFromAnalysis ==
  \/ AnalysisStart
  \/ AnalysisGenerate
  \/ AnalysisSave
  \/ Except

SpecFromAnalysis == InitFromAnalysis /\ [][NextFromAnalysis]_vars

(***************************************************************************)
(* The clean-up of the generator's response before json.loads              *)
(* (generate_shotlist.py, lines 219-222; the same statements are at        *)
(* ai_editor_utils.py, lines 434-437).  A TLA+ string cannot hold the      *)
(* backquote character: "~" stands for it, so "~~~json" is the opening     *)
(* delimiter of a JSON code block and "~~~" the plain delimiter.           *)
(***************************************************************************)
\* s.find(sub) + 1: the index of the first occurrence of sub in s, or 0
FindSub(s, sub) ==
  IF ~IsSubstring(sub, s) THEN 0
  ELSE CHOOSE i \in 1..(Len(s) - Len(sub) + 1) :
         /\ SubSeq(s, i, i + Len(sub) - 1) = sub
         /\ \A j \in 1..(i - 1) : SubSeq(s, j, j + Len(sub) - 1) # sub

\* s.split(sep), given FindSub(s, sep), for a separator that is not empty
RECURSIVE SplitFrom(_, _, _)
SplitFrom(s, sep, i) ==
  IF i = 0 THEN <<s>>
  ELSE <<SubSeq(s, 1, i - 1)>>
       \o SplitFrom(SubSeq(s, i + Len(sep), Len(s)), sep,
                    FindSub(SubSeq(s, i + Len(sep), Len(s)), sep))

SplitOn(s, sep) == SplitFrom(s, sep, FindSub(s, sep))

\* text.split(fence)[1].split("~~~")[0].strip()
fenced(text, fence) == Strip(SplitOn(SplitOn(text, fence)[2], S("~~~"))[1])

\* lines 219-222
\* a variant that trims the raw response too
extract_json_text_trimmed(text) ==
  IF IsSubstring(S("~~~json"), text) THEN fenced(text, S("~~~json"))
  ELSE IF IsSubstring(S("~~~"), text) THEN fenced(text, S("~~~"))
  ELSE Strip(text)

extract_json_text(text) ==
  IF IsSubstring(S("~~~json"), text) THEN fenced(text, S("~~~json"))
  ELSE IF IsSubstring(S("~~~"), text) THEN fenced(text, S("~~~"))
  ELSE text

\* the responses: up to MaxTokens pieces in a row, each a delimiter, a part of
\* one, a JSON text, other text or white space
Responses ==
  {Join(<<>>, parts) :
     parts \in SeqsUpTo({S("~~~json"), S("~~~"), S("~"), S("{}"), S("x"),
                         S(" "), S("\n")}, MaxTokens)}

InitExtract ==
  /\ pc = "extract"
  /\ content \in {Str(text) : text \in Responses}
  /\ shot_list_text = None
  /\ analysis_data = None
  /\ output_json_path = None
  /\ all_filenames = None
  /\ videos_info = None
  /\ shot_list = None
  /\ is_valid = None
  /\ error_message = None
  /\ exception = None
  /\ output_file = None
  /\ result = None
  /\ passes = 0
  /\ NoAnalyzer /\ NoProbe

\* lines 215-222
Extract ==
  /\ pc = "extract"
  /\ shot_list_text' = Str(extract_json_text(content.v))
  /\ pc' = "parse"
  /\ UNCHANGED <<analysis_data, output_json_path, all_filenames, videos_info,
                 shot_list, is_valid, error_message, exception, output_file,
                 result, passes, folder, video_files, all_analyses,
                 output_json, content, raw_metadata, metadata,
                 all_metadata>>

NextExtract == Extract

SpecExtract == InitExtract /\ [][NextExtract]_vars

(***************************************************************************)
(* analyze_videos_in_folder (ai_editor_utils.py, lines 271-348) and        *)
(* analyze_video (lines 206-269).  The outcome of every external step (the *)
(* connection test, the metadata probe, the two frame extractions, the two *)
(* image descriptions and the content analysis) is chosen among the values *)
(* the step can return.  A video path is written as its file name:         *)
(* os.path.join at line 316 and os.path.basename at line 237 cancel.       *)
(***************************************************************************)
\* s.lower()
Lower(s) ==
  LET upper == <<"A", "B", "C", "D", "E", "F", "G", "H", "I", "J", "K", "L", "M",
                 "N", "O", "P", "Q", "R", "S", "T", "U", "V", "W", "X", "Y", "Z">>
      lower == <<"a", "b", "c", "d", "e", "f", "g", "h", "i", "j", "k", "l", "m",
                 "n", "o", "p", "q", "r", "s", "t", "u", "v", "w", "x", "y", "z">>
  IN [k \in DOMAIN s |->
        IF \E j \in 1..26 : upper[j] = s[k]
        THEN lower[CHOOSE j \in 1..26 : upper[j] = s[k]]
        ELSE s[k]]

\* s.endswith(suffixes) for a tuple of suffixes
EndsWith(s, suffixes) ==
  \E suffix \in suffixes :
    /\ Len(s) >= Len(suffix)
    /\ SubSeq(s, Len(s) - Len(suffix) + 1, Len(s)) = suffix

\* line 310
video_extensions ==
  {S(".mp4"), S(".mkv"), S(".avi"), S(".mov"), S(".wmv"), S(".flv"),
   S(".webm"), S(".m4v")}

\* lines 313-316: the video files of a listing, in the order of the listing
RECURSIVE find_video_files(_)
find_video_files(listing) ==
  IF listing = <<>> THEN <<>>
  ELSE IF EndsWith(Lower(Head(listing)), video_extensions)
  THEN <<Str(Head(listing))>> \o find_video_files(Tail(listing))
  ELSE find_video_files(Tail(listing))

\* a faulty variant of analyses_document: the count stays 0
analyses_document_uncounted(total_videos, videos) ==
  Dict((S("folder") :> Str(S("x")))
    @@ (S("scan_date") :> Str(S("x")))
    @@ (S("total_videos") :> PyInt(0))
    @@ (S("videos") :> List(videos)))

\* lines 302-307, with the count and the entries given
analyses_document(total_videos, videos) ==
  Dict((S("folder") :> Str(S("x")))
    @@ (S("scan_date") :> Str(S("x")))
    @@ (S("total_videos") :> PyInt(total_videos))
    @@ (S("videos") :> List(videos)))

\* lines 236-248 with the description set at lines 252-258
frame_result(frame_path, description) ==
  Dict((S("path") :> frame_path)
    @@ (S("description") :> IF Truthy(frame_path) THEN description ELSE None))

\* analyze_video, lines 206-269, given what its steps returned
analyze_video(video_path, probed, first_frame_path, last_frame_path, first_description, last_description, content_analysis) ==
  IF ~Truthy(probed)
  THEN Dict((S("filename") :> video_path)
         @@ (S("error") :> Str(S("Could not extract metadata"))))
  ELSE Dict((S("filename") :> video_path)
         @@ (S("metadata") :> probed)
         @@ (S("first_frame") :> frame_result(first_frame_path, first_description))
         @@ (S("last_frame") :> frame_result(last_frame_path, last_description))
         @@ (S("video_description") :>
               IF /\ Truthy(frame_result(first_frame_path, first_description).v[S("description")])
                  /\ Truthy(frame_result(last_frame_path, last_description).v[S("description")])
               THEN content_analysis
               ELSE None))

\* a variant that keeps only the entries of the videos that were probed
append_analysis_probed(analyses, analysis) ==
  IF In(S("metadata"), analysis)
  THEN SetItem(analyses, S("videos"),
               List(Append(analyses.v[S("videos")].v, analysis)))
  ELSE analyses

\* lines 331-332
append_analysis(analyses, analysis) ==
  IF Truthy(analysis)
  THEN SetItem(analyses, S("videos"),
               List(Append(analyses.v[S("videos")].v, analysis)))
  ELSE analyses

\* a variant that strips the path of the first frame only
pop_path_first_frame(video, key) ==
  IF key = S("first_frame") /\ In(key, video) /\ In(S("path"), video.v[key])
  THEN SetItem(video, key, Without(video.v[key], S("path")))
  ELSE video

\* lines 340-343: video[key].pop("path", None) when the entry has the key
pop_path(video, key) ==
  IF In(key, video) /\ In(S("path"), video.v[key])
  THEN SetItem(video, key, Without(video.v[key], S("path")))
  ELSE video

\* lines 338-343.  json_output is a shallow copy: its "videos" list and the
\* entries in it are the objects of all_analyses, so the loop changes both.
without_paths(analyses) ==
  SetItem(analyses, S("videos"),
          List([k \in DOMAIN analyses.v[S("videos")].v |->
                  pop_path(pop_path(analyses.v[S("videos")].v[k],
                                    S("first_frame")), S("last_frame"))]))

\* the files of the folder, in the order os.listdir gives them
Listings ==
  {listing \in SeqsUpTo({S("a.mp4"), S("B.MOV"), S("n.txt")}, MaxVideos) :
     \A j, k \in DOMAIN listing : listing[j] = listing[k] => j = k}

InitAnalyze ==
  /\ pc = "connect"
  /\ folder \in {List(listing) : listing \in Listings}
  /\ output_json \in {None, Str(S("out.json"))}
  /\ video_files = None /\ all_analyses = None
  /\ analysis_data = None /\ output_json_path = None
  /\ all_filenames = None /\ videos_info = None /\ shot_list = None
  /\ is_valid = None /\ error_message = None /\ exception = None
  /\ output_file = None /\ result = None /\ passes = 0
  /\ NoResponse /\ NoProbe

\* the variables analyze_videos_in_folder does not touch
AnalyzerUnchanged ==
  UNCHANGED <<analysis_data, output_json_path, all_filenames, videos_info,
              shot_list, is_valid, error_message, exception, passes,
              folder, output_json, content, shot_list_text, raw_metadata,
              metadata, all_metadata>>

\* lines 286-297: the connection test fails
ConnectionFailed ==
  /\ pc = "connect"
  /\ result' = SetItem(analyses_document(0, <<>>), S("error"), Str(S("x")))
  /\ pc' = "done"
  /\ UNCHANGED <<video_files, all_analyses, output_file>>
  /\ AnalyzerUnchanged

\* lines 299-324: the connection test succeeds; the folder is listed
ListVideos ==
  /\ pc = "connect"
  /\ video_files' = List(find_video_files(folder.v))
  /\ IF find_video_files(folder.v) = <<>>
     THEN /\ all_analyses' = analyses_document(0, <<>>)
          /\ result' = analyses_document(0, <<>>)
          /\ pc' = "done"
     ELSE /\ all_analyses' =
               analyses_document(Len(find_video_files(folder.v)), <<>>)
          /\ result' = result
          /\ pc' = "loop"
  /\ UNCHANGED output_file
  /\ AnalyzerUnchanged

\* lines 327-332: one iteration of the loop, a whole call of analyze_video.
\* extract_video_metadata returns a record, or None when the probe fails;
\* extract_frame returns the path of the image, or None when ffmpeg fails;
\* describe_image and analyze_video_content return the text of the response
\* (which may be absent), or their error text when the call fails.
AnalyzeVideo ==
  /\ pc = "loop"
  /\ \E probed \in {None, Metadata},
        first_frame_path, last_frame_path \in {None, Str(S("f.jpg"))},
        first_description, last_description \in
          {Str(S("x")), None, Str(S("Error: Could not generate description."))},
        content_analysis \in
          {Str(S("x")), None, Str(S("Error: Could not generate analysis."))} :
       all_analyses' =
         append_analysis(all_analyses,
           analyze_video(Head(video_files.v), probed, first_frame_path,
                         last_frame_path, first_description,
                         last_description, content_analysis))
  /\ video_files' = List(Tail(video_files.v))
  /\ pc' = IF Tail(video_files.v) = <<>> THEN "save" ELSE "loop"
  /\ UNCHANGED <<output_file, result>>
  /\ AnalyzerUnchanged

\* a variant of SaveAnalyses in which json_output shares nothing with
\* all_analyses
SaveAnalyses_deep_copy ==
  /\ pc = "save"
  /\ output_file' = IF Truthy(output_json) THEN without_paths(all_analyses)
                    ELSE output_file
  /\ all_analyses' = all_analyses
  /\ result' = all_analyses
  /\ pc' = "done"
  /\ UNCHANGED video_files
  /\ AnalyzerUnchanged

\* lines 334-348
SaveAnalyses ==
  /\ pc = "save"
  /\ IF Truthy(output_json)
     THEN /\ output_file' = without_paths(all_analyses)
          /\ all_analyses' = without_paths(all_analyses)
          /\ result' = without_paths(all_analyses)
     ELSE /\ output_file' = output_file
          /\ all_analyses' = all_analyses
          /\ result' = all_analyses
  /\ pc' = "done"
  /\ UNCHANGED video_files
  /\ AnalyzerUnchanged

NextAnalyze == ConnectionFailed \/ ListVideos \/ AnalyzeVideo \/ SaveAnalyses

SpecAnalyze == InitAnalyze /\ [][NextAnalyze]_vars

(***************************************************************************)
(* extract_video_metadata (ffmpeg_utils.py, lines 307-422), applied to the *)
(* parsed output of ffprobe.  A float is written as a fraction: Float(n,   *)
(* d) is n / d.  ffprobe prints durations, sizes and bit rates as decimal  *)
(* strings, widths and heights as integers and frame rates as two integers *)
(* around a slash; the inputs are of these shapes.                         *)
(***************************************************************************)
Float(n, d) == [t |-> "float", v |-> <<n, d>>]

\* float(s) for digits, optionally followed by a point and digits
float(s) ==
  IF \E k \in 1..Len(s) : s[k] = "."
  THEN Float(DecimalValue(SelectSeq(s, IsDigit)),
             DecimalValue(<<"1">> \o [k \in 1..(Len(s) - FirstIndex(s, ".")) |-> "0"]))
  ELSE Float(DecimalValue(s), 1)

\* round(p / q, 2), in hundredths: to the nearest, a tie to the even one
round2(p, q) ==
  IF 2 * ((100 * p) % q) < q THEN (100 * p) \div q
  ELSE IF 2 * ((100 * p) % q) > q THEN (100 * p) \div q + 1
  ELSE IF ((100 * p) \div q) % 2 = 0 THEN (100 * p) \div q
  ELSE (100 * p) \div q + 1

\* str(x) for a float of h hundredths: the shortest digits, one at least
float_str(h) ==
  IntToStr(h \div 100) \o S(".") \o
    (IF h % 10 = 0 THEN IntToStr((h % 100) \div 10)
     ELSE IntToStr((h % 100) \div 10) \o IntToStr(h % 10))

\* a faulty variant of duration_formatted: the minutes are not reduced
duration_formatted_total_minutes(whole) ==
  LET format_02d(n) == IF n < 10 THEN S("0") \o IntToStr(n) ELSE IntToStr(n)
  IN format_02d(whole \div 3600) \o S(":")
       \o format_02d(whole \div 60) \o S(":")
       \o format_02d(whole % 60)

\* lines 351-354, for the whole seconds of duration_sec
duration_formatted(whole) ==
  LET format_02d(n) == IF n < 10 THEN S("0") \o IntToStr(n) ELSE IntToStr(n)
  IN format_02d(whole \div 3600) \o S(":")
       \o format_02d((whole % 3600) \div 60) \o S(":")
       \o format_02d(whole % 60)

\* lines 378-391
resolution_name(width, height) ==
  IF width >= 7680 /\ height >= 4320 THEN S("8K")
  ELSE IF width >= 3840 /\ height >= 2160 THEN S("4K")
  ELSE IF width >= 2560 /\ height >= 1440 THEN S("2K")
  ELSE IF width >= 1920 /\ height >= 1080 THEN S("1080p")
  ELSE IF width >= 1280 /\ height >= 720 THEN S("720p")
  ELSE IF width >= 854 /\ height >= 480 THEN S("480p")
  ELSE S("SD")

\* lines 329-340
initial_metadata ==
  Dict((S("filename") :> Str(S("a.mp4")))
    @@ (S("filepath") :> Str(S("a.mp4")))
    @@ (S("filesize_mb") :> PyInt(0))
    @@ (S("duration") :> PyInt(0))
    @@ (S("resolution") :> Str(S("unknown")))
    @@ (S("aspect_ratio") :> Str(S("unknown")))
    @@ (S("video_codec") :> Str(S("unknown")))
    @@ (S("audio_codec") :> Str(S("unknown")))
    @@ (S("bitrate") :> Str(S("unknown")))
    @@ (S("fps") :> PyInt(0)))

\* lines 343-364: the "format" section
set_format(record, format_info) ==
  LET \* lines 347-354
      set_duration(r) ==
        IF In(S("duration"), format_info)
        THEN SetItem(SetItem(r, S("duration"),
                             float(format_info.v[S("duration")].v)),
                     S("duration_formatted"),
                     Str(duration_formatted(
                           float(format_info.v[S("duration")].v).v[1]
                             \div float(format_info.v[S("duration")].v).v[2])))
        ELSE r
      \* lines 357-359
      set_filesize(r) ==
        IF In(S("size"), format_info)
        THEN SetItem(r, S("filesize_mb"),
                     Float(round2(int(format_info.v[S("size")].v).value,
                                  1024 * 1024), 100))
        ELSE r
      \* lines 362-364
      set_bitrate(r) ==
        IF /\ In(S("bit_rate"), format_info)
           /\ format_info.v[S("bit_rate")].v # <<>>
           /\ \A k \in DOMAIN format_info.v[S("bit_rate")].v :
                IsDigit(format_info.v[S("bit_rate")].v[k])
        THEN SetItem(r, S("bitrate"),
                     Str(float_str(round2(int(format_info.v[S("bit_rate")].v).value,
                                          1000000)) \o S(" Mbps")))
        ELSE r
  IN set_bitrate(set_filesize(set_duration(record)))

\* lines 370-413: one stream
set_stream(record, stream) ==
  LET \* lines 373-391
      set_resolution(r) ==
        IF In(S("width"), stream) /\ In(S("height"), stream)
        THEN SetItem(SetItem(r, S("resolution"),
                             Str(IntToStr(stream.v[S("width")].v) \o S("x")
                                   \o IntToStr(stream.v[S("height")].v))),
                     S("resolution_name"),
                     Str(resolution_name(stream.v[S("width")].v,
                                         stream.v[S("height")].v)))
        ELSE r
      \* lines 394-399 and 412-413: r[field] = stream[key] when it is there
      set_copied(r, field, key) ==
        IF In(key, stream) THEN SetItem(r, field, stream.v[key]) ELSE r
      \* lines 402-407
      set_fps(r) ==
        IF /\ In(S("avg_frame_rate"), stream)
           /\ In(S("/"), stream.v[S("avg_frame_rate")])
           /\ int(Split(stream.v[S("avg_frame_rate")].v, "/")[2]).value # 0
        THEN SetItem(r, S("fps"),
                     Float(round2(int(Split(stream.v[S("avg_frame_rate")].v, "/")[1]).value,
                                  int(Split(stream.v[S("avg_frame_rate")].v, "/")[2]).value),
                           100))
        ELSE r
  IN IF Get(stream, S("codec_type"), None).value = Str(S("video"))
     THEN set_fps(set_copied(set_copied(set_resolution(record),
                                        S("aspect_ratio"),
                                        S("display_aspect_ratio")),
                             S("video_codec"), S("codec_name")))
     ELSE IF Get(stream, S("codec_type"), None).value = Str(S("audio"))
     THEN set_copied(record, S("audio_codec"), S("codec_name"))
     ELSE record

\* lines 368-413: the streams, in order
RECURSIVE set_streams(_, _)
set_streams(record, streams) ==
  IF streams = <<>> THEN record
  ELSE set_streams(set_stream(record, Head(streams)), Tail(streams))

\* lines 326-414: the record built from the parsed output
build_metadata(raw) ==
  set_streams(IF In(S("format"), raw)
              THEN set_format(initial_metadata, raw.v[S("format")])
              ELSE initial_metadata,
              IF In(S("streams"), raw) THEN raw.v[S("streams")].v ELSE <<>>)

\* the parsed output of ffprobe: a "format" section, a "streams" section of
\* up to MaxStreams entries, both, or neither
RawChoices ==
  LET FormatChoices ==
        {EmptyDict,
         Dict((S("duration") :> Str(S("10.500000")))
           @@ (S("size") :> Str(S("1048576")))
           @@ (S("bit_rate") :> Str(S("8000000")))),
         Dict(S("duration") :> Str(S("3661"))),
         Dict(S("duration") :> Str(S("0"))),
         Dict(S("duration") :> Str(S("59"))),
         Dict(S("duration") :> Str(S("60"))),
         Dict(S("duration") :> Str(S("3599"))),
         Dict(S("duration") :> Str(S("3600"))),
         Dict(S("duration") :> Str(S("86399"))),
         Dict(S("duration") :> Str(S("359999"))),
         Dict(S("duration") :> Str(S("360000"))),
         Dict((S("size") :> Str(S("131072")))
           @@ (S("bit_rate") :> Str(S("N/A"))))}
      VideoStream(width, height, rate) ==
        Dict((S("codec_type") :> Str(S("video")))
          @@ (S("codec_name") :> Str(S("h264")))
          @@ (S("width") :> PyInt(width))
          @@ (S("height") :> PyInt(height))
          @@ (S("display_aspect_ratio") :> Str(S("16:9")))
          @@ (S("avg_frame_rate") :> Str(rate)))
      StreamChoices ==
        {VideoStream(1920, 1080, S("30000/1001")),
         VideoStream(3840, 2160, S("25/1")),
         VideoStream(640, 360, S("0/0")),
         Dict((S("codec_type") :> Str(S("video")))
           @@ (S("codec_name") :> Str(S("h264")))),
         Dict((S("codec_type") :> Str(S("audio")))
           @@ (S("codec_name") :> Str(S("aac")))),
         Dict(S("codec_type") :> Str(S("data")))}
  IN {EmptyDict}
     \cup {Dict(S("format") :> format_info) : format_info \in FormatChoices}
     \cup {Dict(S("streams") :> List(streams)) :
             streams \in SeqsUpTo(StreamChoices, MaxStreams)}
     \cup {Dict((S("format") :> format_info) @@ (S("streams") :> List(streams))) :
             format_info \in FormatChoices,
             streams \in SeqsUpTo(StreamChoices, MaxStreams)}

InitProbe ==
  /\ pc = "probe"
  /\ raw_metadata = None /\ metadata = None /\ all_metadata = None
  /\ analysis_data = None /\ output_json_path = None
  /\ all_filenames = None /\ videos_info = None /\ shot_list = None
  /\ is_valid = None /\ error_message = None /\ exception = None
  /\ output_file = None /\ result = None /\ passes = 0
  /\ NoAnalyzer /\ NoResponse

\* lines 322-324 and 416-422: ffprobe exits with an error, or its output is
\* not JSON; the exception is caught and None is returned
ProbeFailed ==
  /\ pc = "probe"
  /\ \E exc \in {"CalledProcessError", "JSONDecodeError"} :
       exception' = Raised(exc, "probe")
  /\ result' = None
  /\ pc' = "done"
  /\ UNCHANGED <<raw_metadata, metadata>>
  /\ UNCHANGED <<analysis_data, output_json_path, all_filenames, videos_info,
                 shot_list, is_valid, error_message, output_file, passes,
                 folder, video_files, all_analyses, output_json, content,
                 shot_list_text, all_metadata>>

\* lines 322-414: the output is parsed and the record is built and returned
ExtractMetadata ==
  /\ pc = "probe"
  /\ \E raw \in RawChoices :
       /\ raw_metadata' = raw
       /\ metadata' = build_metadata(raw)
       /\ result' = build_metadata(raw)
  /\ pc' = "done"
  /\ UNCHANGED exception
  /\ UNCHANGED <<analysis_data, output_json_path, all_filenames, videos_info,
                 shot_list, is_valid, error_message, output_file, passes,
                 folder, video_files, all_analyses, output_json, content,
                 shot_list_text, all_metadata>>

NextProbe == ProbeFailed \/ ExtractMetadata

SpecProbe == InitProbe /\ [][NextProbe]_vars

(***************************************************************************)
(* The scan of the input videos alone (generate_shot_list_from_json, lines *)
(* 101-151), on videos that hold every combination of the four description *)
(* fields (absent, empty, or a text that names the field), with and        *)
(* without frames and a filename; alone, or beside a second video.         *)
(***************************************************************************)
ScanVideos ==
  LET Fields(present, empty) ==
        [k \in present |-> IF k \in empty THEN Str(<<>>) ELSE Str(k)]
      FrameChoices ==
        {<<>>,
         S("first_frame") :> Frame(Str(S("x"))),
         (S("first_frame") :> Frame(Str(S("x"))))
           @@ (S("last_frame") :> Frame(Str(S("fade")))),
         (S("first_frame") :> Frame(Str(S("x"))))
           @@ (S("last_frame") :> Frame(None)),
         (S("first_frame") :> EmptyDict)
           @@ (S("last_frame") :> Frame(Str(S("x"))))}
      NameChoices == {<<>>, S("filename") :> Str(S("a.mp4"))}
  IN {Dict(Fields(present, empty) @@ frames @@ name) :
        present \in SUBSET Range(description_fields),
        empty \in SUBSET Range(description_fields),
        frames \in FrameChoices,
        name \in NameChoices}

InitScan ==
  /\ pc = "load"
  /\ \E video \in ScanVideos :
       analysis_data \in
         {Dict(S("videos") :> List(<<video>>)),
          Dict(S("videos") :> List(<<video, UsableVideo(S("b.mp4"))>>)),
          Dict(S("videos") :> List(<<UnusableVideo(S("b.mp4")), video>>))}
  /\ output_json_path = None
  /\ all_filenames = None /\ videos_info = None /\ shot_list = None
  /\ is_valid = None /\ error_message = None /\ exception = None
  /\ output_file = None /\ result = None /\ passes = 0
  /\ NoAnalyzer /\ NoResponse /\ NoProbe

NextScan == LoadAnalysis

SpecScan == InitScan /\ [][NextScan]_vars

(***************************************************************************)
(* extract_metadata_from_folder (ffmpeg_utils.py, lines 424-482).          *)
(* video_files is the list of the files still to probe.                    *)
(***************************************************************************)
InitMetadata ==
  /\ pc = "list"
  /\ folder \in {List(listing) : listing \in Listings}
  /\ output_json \in {None, Str(S("out.json"))}
  /\ video_files = None /\ all_analyses = None /\ all_metadata = None
  /\ raw_metadata = None /\ metadata = None
  /\ analysis_data = None /\ output_json_path = None
  /\ all_filenames = None /\ videos_info = None /\ shot_list = None
  /\ is_valid = None /\ error_message = None /\ exception = None
  /\ output_file = None /\ result = None /\ passes = 0
  /\ NoResponse

\* the variables extract_metadata_from_folder does not touch
MetadataUnchanged ==
  UNCHANGED <<analysis_data, output_json_path, all_filenames, videos_info,
              shot_list, is_valid, error_message, exception, passes,
              folder, output_json, content, shot_list_text, all_analyses>>

\* lines 437-455: the result document, the listing and the count
ListFolder ==
  /\ pc = "list"
  /\ video_files' = List(find_video_files(folder.v))
  /\ all_metadata' =
       SetItem(analyses_document(Len(find_video_files(folder.v)), <<>>),
               S("total_duration_seconds"), PyInt(0))
  /\ pc' = IF find_video_files(folder.v) = <<>> THEN "format" ELSE "each"
  /\ UNCHANGED <<raw_metadata, metadata, output_file, result>>
  /\ MetadataUnchanged

\* lines 458-468: one iteration of the loop, a whole call of
\* extract_video_metadata, which returns None when the probe fails
ProbeVideo ==
  /\ pc = "each"
  /\ \E raw \in {None, EmptyDict,
                 Dict(S("format") :> Dict(S("duration") :> Str(S("3661")))),
                 Dict(S("format") :> Dict(S("duration") :> Str(S("59.5"))))} :
       LET sum(x, y) ==
             IF x.t = "int" /\ y.t = "int" THEN PyInt(x.v + y.v)
             ELSE IF x.t = "int" THEN Float(x.v * y.v[2] + y.v[1], y.v[2])
             ELSE IF y.t = "int" THEN Float(x.v[1] + y.v * x.v[2], x.v[2])
             ELSE IF x.v[2] = y.v[2] THEN Float(x.v[1] + y.v[1], x.v[2])
             ELSE Float(x.v[1] * y.v[2] + y.v[1] * x.v[2], x.v[2] * y.v[2])
           added(record) ==
             SetItem(SetItem(all_metadata, S("videos"),
                             List(Append(all_metadata.v[S("videos")].v, record))),
                     S("total_duration_seconds"),
                     IF In(S("duration"), record)
                     THEN sum(all_metadata.v[S("total_duration_seconds")],
                              record.v[S("duration")])
                     ELSE all_metadata.v[S("total_duration_seconds")])
       IN /\ raw_metadata' = raw
          /\ metadata' =
               IF raw = None THEN None
               ELSE SetItem(SetItem(build_metadata(raw), S("filename"),
                                    Str(Head(video_files.v))),
                            S("filepath"), Str(Head(video_files.v)))
          /\ all_metadata' =
               IF Truthy(metadata') THEN added(metadata') ELSE all_metadata
  /\ video_files' = List(Tail(video_files.v))
  /\ pc' = IF Tail(video_files.v) = <<>> THEN "format" ELSE "each"
  /\ UNCHANGED <<output_file, result>>
  /\ MetadataUnchanged

\* lines 470-482: the total is formatted, the document written and returned
SaveMetadata ==
  /\ pc = "format"
  /\ all_metadata' =
       SetItem(all_metadata, S("total_duration_formatted"),
               Str(duration_formatted(
                     IF all_metadata.v[S("total_duration_seconds")].t = "int"
                     THEN all_metadata.v[S("total_duration_seconds")].v
                     ELSE all_metadata.v[S("total_duration_seconds")].v[1]
                            \div all_metadata.v[S("total_duration_seconds")].v[2])))
  /\ output_file' = IF Truthy(output_json) THEN all_metadata' ELSE output_file
  /\ result' = all_metadata'
  /\ pc' = "done"
  /\ UNCHANGED <<video_files, raw_metadata, metadata>>
  /\ MetadataUnchanged

(***************************************************************************)
(* The two functions that walk a folder, analyze_videos_in_folder and      *)
(* extract_metadata_from_folder, each from its own start.                  *)
(***************************************************************************)
InitFolders == InitAnalyze \/ InitMetadata

NextFolders ==
  \/ ConnectionFailed
  \/ ListVideos
  \/ AnalyzeVideo
  \/ SaveAnalyses
  \/ ListFolder
  \/ ProbeVideo
  \/ SaveMetadata

SpecFolders == InitFolders /\ [][NextFolders]_vars

(***************************************************************************)
(* Vocabulary of the properties, stated on the documents themselves and    *)
(* not through the validator.                                              *)
(***************************************************************************)
HasShotsList(doc) ==
  /\ doc.t = "dict"
  /\ S("shots") \in DOMAIN doc.v
  /\ doc.v[S("shots")].t = "list"

ShotsOf(doc) == doc.v[S("shots")].v

\* some entry of the document's shots has `f` as its filename
Covered(f, doc) ==
  \E i \in 1..Len(ShotsOf(doc)) :
    /\ ShotsOf(doc)[i].t = "dict"
    /\ S("filename") \in DOMAIN ShotsOf(doc)[i].v
    /\ ShotsOf(doc)[i].v[S("filename")] = f

AllCovered(fns, doc) ==
  \A i \in 1..Len(fns.v) : Covered(fns.v[i], doc)

\* the identifiers of fns no shot names, in the order of fns
Uncovered(fns, doc) == SelectSeq(fns.v, LAMBDA f : ~Covered(f, doc))

Colons(s) == {i \in 1..Len(s) : s[i] = ":"}

\* s is h:m:s with three integers, h >= 0, m and s in [0, 60)
IsTime(s) ==
  /\ Cardinality(Colons(s)) = 2
  /\ LET i == CHOOSE i \in Colons(s) : \A j \in Colons(s) : i <= j
         j == CHOOSE j \in Colons(s) : \A i2 \in Colons(s) : i2 <= j
         h == int(SubSeq(s, 1, i - 1))
         m == int(SubSeq(s, i + 1, j - 1))
         sec == int(SubSeq(s, j + 1, Len(s)))
     IN /\ ~h.raised /\ ~m.raised /\ ~sec.raised
        /\ h.value >= 0
        /\ m.value \in 0..59
        /\ sec.value \in 0..59

IsTimeValue(x) == x.t = "str" /\ IsTime(x.v)

HasSevenFields(shot) ==
  shot.t = "dict" /\ \A k \in Range(shot_keys) : k \in DOMAIN shot.v

WellFormedShot(shot) ==
  /\ HasSevenFields(shot)
  /\ \A k \in Range(time_keys) : IsTimeValue(shot.v[k])

HasRequiredKeys(doc) ==
  doc.t = "dict" /\ \A k \in Range(required_keys) : k \in DOMAIN doc.v

\* a document whose only possible defect is a clip that no shot names
StructurallyValid(doc) ==
  /\ HasRequiredKeys(doc)
  /\ HasShotsList(doc)
  /\ ShotsOf(doc) # <<>>
  /\ \A i \in 1..Len(ShotsOf(doc)) : WellFormedShot(ShotsOf(doc)[i])

\* a document whose only possible defects are absent top-level keys and
\* absent clips
OnlyAbsentDefects(doc) ==
  /\ doc.t = "dict"
  /\ S("shots") \in DOMAIN doc.v =>
       /\ doc.v[S("shots")].t = "list"
       /\ \A i \in 1..Len(ShotsOf(doc)) : WellFormedShot(ShotsOf(doc)[i])

\* every clip of all_filenames had a usable description (is in videos_info)
AllClipsUsable ==
  \A i \in 1..Len(all_filenames.v) :
    \E j \in 1..Len(videos_info.v) :
      videos_info.v[j].v[S("filename")] = all_filenames.v[i]

Returned == pc \notin {"validate", "except"}

(***************************************************************************)
(* C1.  Completeness of repair: after the repair step, every identifier    *)
(* of all_filenames (usable description or not) is the filename of some    *)
(* entry of shots.  The code adds an entry only for a clip that has a      *)
(* video_info, so a clip without a usable description stays absent.        *)
(***************************************************************************)
C1_RepairCompleteness ==
  passes = 1 =>
    HasShotsList(shot_list) /\ AllCovered(all_filenames, shot_list)

(***************************************************************************)
(* C2.  Repair is total: the repair step never raises, whatever the shape  *)
(* of the document that failed validation.  The code raises on a `shots`   *)
(* that is not a list and on entries without `filename`.                   *)
(***************************************************************************)
C2_RepairNeverRaises ==
  exception # None => exception.at # "repair"

(***************************************************************************)
(* C3.  The validator never throws: for every parsed JSON value it         *)
(* returns a pair.  The code raises TypeError on a document or an entry    *)
(* that is a scalar or null.                                               *)
(***************************************************************************)
C3_ValidatorNeverRaises ==
  exception # None => exception.at \notin {"validate", "revalidate"}

(***************************************************************************)
(* C4.  End-to-end repair.  With the clip list [a, b], both usable, and a  *)
(* well-formed document with entries only for a, the repair step appends   *)
(* exactly one entry, for b, with start_time "00:00:00", transition_in     *)
(* "cut" and transition_out "cut"; and whenever the only defects of the    *)
(* document are absent top-level keys and absent clips (every clip         *)
(* usable), the repair completes, leaves a document with the three keys    *)
(* and well-formed entries naming every clip, and the second validation    *)
(* succeeds.                                                               *)
(***************************************************************************)
C4_EndToEndCase ==
  /\ all_filenames = List(<<Str(S("a.mp4")), Str(S("b.mp4"))>>)
  /\ AllClipsUsable
  /\ StructurallyValid(shot_list)
  /\ \A i \in 1..Len(ShotsOf(shot_list)) :
       ShotsOf(shot_list)[i].v[S("filename")] = Str(S("a.mp4"))

C4_AppendedForB(before, after) ==
  /\ Len(after) = Len(before) + 1
  /\ SubSeq(after, 1, Len(before)) = before
  /\ after[Len(after)].t = "dict"
  /\ after[Len(after)].v[S("filename")] = Str(S("b.mp4"))
  /\ after[Len(after)].v[S("start_time")] = Str(S("00:00:00"))
  /\ after[Len(after)].v[S("transition_in")] = Str(S("cut"))
  /\ after[Len(after)].v[S("transition_out")] = Str(S("cut"))

C4_Step ==
  /\ (pc = "repair" /\ C4_EndToEndCase) =>
       /\ pc' = "revalidate"
       /\ C4_AppendedForB(ShotsOf(shot_list), ShotsOf(shot_list'))
  /\ (pc = "repair" /\ OnlyAbsentDefects(shot_list) /\ AllClipsUsable) =>
       /\ pc' = "revalidate"
       /\ StructurallyValid(shot_list')
       /\ AllCovered(all_filenames, shot_list')
  /\ (pc = "revalidate" /\ StructurallyValid(shot_list) /\ AllClipsUsable) =>
       /\ pc' = "count"
       /\ is_valid' = True
       /\ error_message' = None

C5_RepairIdempotent ==
  [][(pc = "revalidate" /\ passes = 1) =>
       /\ pc' # "except"
       /\ ShotsOf(shot_list') = ShotsOf(shot_list)]_vars

C5_Witness ==
  /\ passes = 2
  /\ \E i \in 1..Len(ShotsOf(shot_list)) :
       ShotsOf(shot_list)[i].v[S("description")]
         = Str(S("Added shot from ") \o S("a.mp4"))

(***************************************************************************)
(* C6.  Validator soundness: when the validator returns (True, None),      *)
(* every entry of shots has the seven fields and each of its three time    *)
(* fields is a string of three colon-separated integers with hours >= 0    *)
(* and minutes and seconds in [0, 60).                                     *)
(***************************************************************************)
C6_ValidatorSound ==
  (Returned /\ is_valid = True) =>
    /\ HasShotsList(shot_list)
    /\ \A i \in 1..Len(ShotsOf(shot_list)) : WellFormedShot(ShotsOf(shot_list)[i])

C6_Witness ==
  /\ Returned
  /\ is_valid = True
  /\ ShotsOf(shot_list)[1].v[S("end_time")] = Str(<<"0", ":", "6", ":", "-", "0">>)

(***************************************************************************)
(* C7.  Known-filename check: with all_filenames supplied, validation      *)
(* succeeds only if every identifier in it is the filename of some shot;   *)
(* a document with no other defect then fails with the message that lists  *)
(* exactly the missing identifiers, joined by ", ", in the order of        *)
(* all_filenames.                                                          *)
(***************************************************************************)
C7_KnownFilenames ==
  (pc # "validate" /\ Truthy(all_filenames)) =>
    /\ is_valid = True => AllCovered(all_filenames, shot_list)
    /\ StructurallyValid(shot_list) =>
         /\ pc # "except"
         /\ Uncovered(all_filenames, shot_list) = <<>> => is_valid = True
         /\ Uncovered(all_filenames, shot_list) # <<>> =>
              /\ is_valid = False
              /\ error_message =
                   Str(S("Shot list is missing the following files: ")
                       \o Join(S(", "),
                               [i \in 1..Len(Uncovered(all_filenames, shot_list)) |->
                                  Uncovered(all_filenames, shot_list)[i].v]))

C7_Witness ==
  /\ Returned
  /\ is_valid = False
  /\ all_filenames = List(<<Str(S("b.mp4")), Str(S("a.mp4"))>>)
  /\ error_message =
       Str(S("Shot list is missing the following files: ")
           \o S("b.mp4") \o S(", ") \o S("a.mp4"))

(***************************************************************************)
(* C8.  As claimed: every shot of a document that passes validation        *)
(* against a supplied clip list names a known clip.  The validator does    *)
(* not check it.                                                           *)
(***************************************************************************)
C8_ShotsNameKnownClips ==
  (Returned /\ is_valid = True /\ Truthy(all_filenames)) =>
    \A i \in 1..Len(ShotsOf(shot_list)) :
      InList(ShotsOf(shot_list)[i].v[S("filename")], all_filenames.v)

(***************************************************************************)
(* C8, amended.  Every shot of a document that passes validation against   *)
(* a supplied clip list has a `filename` field, and every identifier of    *)
(* all_filenames is the filename of some shot; a shot may name a clip      *)
(* that is not in all_filenames.                                           *)
(***************************************************************************)
C8_KnownClipsAreNamed ==
  (Returned /\ is_valid = True /\ Truthy(all_filenames)) =>
    /\ \A i \in 1..Len(ShotsOf(shot_list)) :
         /\ ShotsOf(shot_list)[i].t = "dict"
         /\ S("filename") \in DOMAIN ShotsOf(shot_list)[i].v
    /\ \A i \in 1..Len(all_filenames.v) :
         \E j \in 1..Len(ShotsOf(shot_list)) :
           ShotsOf(shot_list)[j].v[S("filename")] = all_filenames.v[i]

C8_Witness ==
  /\ Returned
  /\ is_valid = True
  /\ all_filenames = List(<<Str(S("a.mp4"))>>)
  /\ \E i \in 1..Len(ShotsOf(shot_list)) :
       ShotsOf(shot_list)[i].v[S("filename")] = Str(S("z.mp4"))

(***************************************************************************)
(* C9.  Top-level key check: a mapping that lacks any of project_name,     *)
(* narrative_theme, shots fails validation with the missing-key message    *)
(* naming the first missing key in that order.                             *)
(***************************************************************************)
C9_FirstMissing(doc) ==
  IF S("project_name") \notin DOMAIN doc.v THEN S("project_name")
  ELSE IF S("narrative_theme") \notin DOMAIN doc.v THEN S("narrative_theme")
  ELSE S("shots")

C9_TopLevelKeys ==
  (pc # "validate" /\ shot_list.t = "dict" /\ ~HasRequiredKeys(shot_list)) =>
    /\ pc # "except"
    /\ is_valid = False
    /\ error_message =
         Str(S("Missing required key: '") \o C9_FirstMissing(shot_list) \o S("'"))

C9_Witness ==
  /\ Returned
  /\ shot_list = Dict(S("project_name") :> Str(S("x")))
  /\ error_message =
       Str(S("Missing required key: '") \o S("narrative_theme") \o S("'"))

(***************************************************************************)
(* C10.  Time-field rule: in a document with no other defect (three        *)
(* top-level keys, a non-empty list of entries with the seven fields, and  *)
(* every supplied clip named), validation succeeds exactly when every      *)
(* time field is a string that splits on ':' into three integers with      *)
(* hours >= 0, 0 <= minutes < 60 and 0 <= seconds < 60.  "1:2:3" is        *)
(* accepted, and "00:75:00" is rejected with the invalid-time-values       *)
(* message.                                                                *)
(***************************************************************************)
C10_NoOtherDefect ==
  /\ HasRequiredKeys(shot_list)
  /\ HasShotsList(shot_list)
  /\ ShotsOf(shot_list) # <<>>
  /\ \A i \in 1..Len(ShotsOf(shot_list)) : HasSevenFields(ShotsOf(shot_list)[i])
  /\ Truthy(all_filenames) => AllCovered(all_filenames, shot_list)

C10_TimeField(key, text) ==
  /\ Len(ShotsOf(shot_list)) = 1
  /\ ShotsOf(shot_list)[1].v[key] = Str(text)
  /\ \A k \in Range(time_keys) \ {key} : IsTimeValue(ShotsOf(shot_list)[1].v[k])

C10_TimeFieldRule ==
  (pc # "validate" /\ C10_NoOtherDefect) =>
    /\ pc # "except"
    /\ is_valid = True <=>
         \A i \in 1..Len(ShotsOf(shot_list)) :
           \A k \in Range(time_keys) : IsTimeValue(ShotsOf(shot_list)[i].v[k])
    /\ \A key \in Range(time_keys) :
         /\ C10_TimeField(key, S("1:2:3")) => is_valid = True
         /\ C10_TimeField(key, S("00:75:00")) =>
              /\ is_valid = False
              /\ error_message =
                   Str(S("Shot ") \o <<"1">> \o S(": '") \o key
                       \o S("' contains invalid time values"))

C10_Witness ==
  /\ Returned
  /\ C10_NoOtherDefect
  /\ C10_TimeField(S("duration"), S("00:75:00"))
  /\ is_valid = False

(***************************************************************************)
(* C11.  Shape of `shots`: with the three top-level keys present, a        *)
(* `shots` value that is not a list (null, boolean, number, string,        *)
(* mapping; empty or not) fails validation with the must-be-an-array       *)
(* message, and an empty list fails with the cannot-be-empty message.      *)
(* An empty string or mapping gets the first message: the type is checked  *)
(* before the emptiness.                                                   *)
(***************************************************************************)
C11_ShotsShape ==
  (pc # "validate" /\ HasRequiredKeys(shot_list)) =>
    /\ shot_list.v[S("shots")].t # "list" =>
         /\ pc # "except"
         /\ is_valid = False
         /\ error_message = Str(S("'shots' must be an array"))
    /\ shot_list.v[S("shots")] = List(<<>>) =>
         /\ pc # "except"
         /\ is_valid = False
         /\ error_message = Str(S("'shots' array cannot be empty"))

C11_Witness ==
  /\ Returned
  /\ HasRequiredKeys(shot_list)
  /\ shot_list.v[S("shots")] = EmptyDict
  /\ error_message = Str(S("'shots' must be an array"))

(***************************************************************************)
(* C12.  End time of a synthesized entry: for each entry the repair step   *)
(* adds, end_time is the clip's duration_formatted from the metadata of    *)
(* the input analysis when the metadata has one, "00:01:00" otherwise,     *)
(* and duration equals end_time.  The video_info the code reads has no     *)
(* key "duration_formatted", so the entry always gets "00:01:00".          *)
(***************************************************************************)
\* the metadata of the first input video named f
C12_MetadataOf(f) ==
  LET videos == analysis_data.v[S("videos")].v
      i == CHOOSE i \in 1..Len(videos) :
             /\ videos[i].v[S("filename")] = f
             /\ \A j \in 1..(i - 1) : videos[j].v[S("filename")] # f
  IN videos[i].v[S("metadata")]

C12_KnownDuration(f) ==
  IF S("duration_formatted") \in DOMAIN C12_MetadataOf(f).v
  THEN C12_MetadataOf(f).v[S("duration_formatted")]
  ELSE Str(S("00:01:00"))

\* an entry of the form the repair step appends (line 265)
C12_Synthesized(shot) ==
  /\ shot.t = "dict"
  /\ {S("filename"), S("description")} \subseteq DOMAIN shot.v
  /\ shot.v[S("filename")].t = "str"
  /\ shot.v[S("description")]
       = Str(S("Added shot from ") \o shot.v[S("filename")].v)

C12_SynthesizedEndTime ==
  (passes = 1 /\ HasShotsList(shot_list)) =>
    \A i \in 1..Len(ShotsOf(shot_list)) :
      C12_Synthesized(ShotsOf(shot_list)[i]) =>
        /\ ShotsOf(shot_list)[i].v[S("end_time")]
             = C12_KnownDuration(ShotsOf(shot_list)[i].v[S("filename")])
        /\ ShotsOf(shot_list)[i].v[S("duration")]
             = ShotsOf(shot_list)[i].v[S("end_time")]

(***************************************************************************)
(* C13.  Required labels after repair: in every document leaving the       *)
(* repair step, project_name and narrative_theme are present and are       *)
(* non-empty strings, and shots is a non-empty list.  The code sets a      *)
(* default only for an absent key (lines 239-246): a label the generator   *)
(* returned as "" or null leaves the repair step as it came.               *)
(***************************************************************************)
C13_NonEmptyLabel(x) == x.t = "str" /\ x.v # <<>>

C13_RequiredLabels ==
  passes = 1 =>
    /\ HasRequiredKeys(shot_list)
    /\ C13_NonEmptyLabel(shot_list.v[S("project_name")])
    /\ C13_NonEmptyLabel(shot_list.v[S("narrative_theme")])
    /\ HasShotsList(shot_list)
    /\ ShotsOf(shot_list) # <<>>

\* the part of C13 about `shots` alone
C13_ShotsNonEmpty ==
  passes = 1 => HasShotsList(shot_list) /\ ShotsOf(shot_list) # <<>>

(***************************************************************************)
(* C14.  Lenient persistence: a generation whose document failed           *)
(* validation and still fails after the repair step (whatever the          *)
(* remaining defect: an entry lacking filename, description or a valid     *)
(* time) ends with that document returned, and written when an output      *)
(* path is given.  For an entry lacking `filename` the repair block        *)
(* itself raises at line 250 and the generation returns None.              *)
(***************************************************************************)
C14_Persisted ==
  /\ result = shot_list
  /\ Truthy(output_json_path) => output_file = shot_list

\* the defects are inside the entries: the document is a mapping whose
\* `shots` is a list of mappings
C14_EntriesAreMappings(doc) ==
  /\ HasShotsList(doc)
  /\ \A i \in 1..Len(ShotsOf(doc)) : ShotsOf(doc)[i].t = "dict"

C14_LenientPersistence ==
  (pc = "done" /\ is_valid = False /\ C14_EntriesAreMappings(shot_list)) =>
    C14_Persisted

\* the part of C14 that the code has: once the repair step has completed,
\* the document is persisted whether or not the second validation succeeds
C14_PersistedAfterRepair ==
  (pc = "done" /\ passes = 1) => C14_Persisted

(***************************************************************************)
(* C15.  Validation precedes persistence: whenever a shot-list document    *)
(* has been written, the validator has been run on it, and the repair      *)
(* step too when the validation failed.  It holds of                       *)
(* generate_shot_list_from_json; generate_shot_list_from_analysis writes   *)
(* the parsed response without calling the validator.                      *)
(***************************************************************************)
C15_ValidatedBeforePersisted ==
  output_file # None =>
    /\ is_valid \in {True, False}
    /\ is_valid = False => passes >= 1

\* a document was written by generate_shot_list_from_json
C15_WrittenAfterValidation ==
  /\ output_file # None
  /\ output_file = shot_list
  /\ is_valid = True

(***************************************************************************)
(* C16.  Extraction of the JSON text from the response.  When the response *)
(* contains the opening delimiter of a JSON code block, the text handed to *)
(* the parser is the trimmed text between the first such delimiter and the *)
(* next plain delimiter; otherwise, when it contains a plain delimiter,    *)
(* the trimmed text between the first and the second delimiter; otherwise  *)
(* the response itself, unchanged and untrimmed.                           *)
(***************************************************************************)
C16_At(text, sub, i) ==
  /\ i \in 1..(Len(text) - Len(sub) + 1)
  /\ SubSeq(text, i, i + Len(sub) - 1) = sub

C16_Contains(text, sub) == \E i \in 1..Len(text) : C16_At(text, sub, i)

\* out is the trimmed text between the first opening delimiter and the next
\* closing delimiter after it
C16_Between(text, opening, closing, out) ==
  \E i, j \in 1..Len(text) :
    /\ C16_At(text, opening, i)
    /\ \A k \in 1..(i - 1) : ~C16_At(text, opening, k)
    /\ j >= i + Len(opening)
    /\ C16_At(text, closing, j)
    /\ \A k \in (i + Len(opening))..(j - 1) : ~C16_At(text, closing, k)
    /\ out = Strip(SubSeq(text, i + Len(opening), j - 1))

\* the opening delimiter is followed by a closing one
C16_Closed(text, opening, closing) ==
  \E i, j \in 1..Len(text) :
    /\ C16_At(text, opening, i)
    /\ \A k \in 1..(i - 1) : ~C16_At(text, opening, k)
    /\ j >= i + Len(opening)
    /\ C16_At(text, closing, j)

C16_FenceExtraction ==
  pc = "parse" =>
    IF C16_Contains(content.v, S("~~~json"))
    THEN C16_Closed(content.v, S("~~~json"), S("~~~")) =>
           C16_Between(content.v, S("~~~json"), S("~~~"), shot_list_text.v)
    ELSE IF C16_Contains(content.v, S("~~~"))
    THEN C16_Closed(content.v, S("~~~"), S("~~~")) =>
           C16_Between(content.v, S("~~~"), S("~~~"), shot_list_text.v)
    ELSE shot_list_text = content

\* the part of C16 that the code has: the statement holds of every response
\* in which the opening delimiter of a JSON code block occurs at most once.
\* The code cuts the response at every such delimiter before it looks for
\* the closing one, so a closing delimiter that runs into a second opening
\* delimiter is not seen.
C16_SingleBlock ==
  (\A i, j \in 1..Len(content.v) :
     (C16_At(content.v, S("~~~json"), i) /\ C16_At(content.v, S("~~~json"), j))
       => i = j)
    => C16_FenceExtraction

\* the text of s before the first occurrence of sub, all of s when there is
\* none
C16_UpTo(s, sub) ==
  IF C16_Contains(s, sub)
  THEN SubSeq(s, 1, (CHOOSE j \in 1..Len(s) :
                       /\ C16_At(s, sub, j)
                       /\ \A k \in 1..(j - 1) : ~C16_At(s, sub, k)) - 1)
  ELSE s

\* the text of s after the first occurrence of sub
C16_After(s, sub) == SubSeq(s, Len(C16_UpTo(s, sub)) + Len(sub) + 1, Len(s))

(***************************************************************************)
(* C16, as the code has it.  The response is first cut at every opening    *)
(* delimiter; of the piece that follows the first opening delimiter, the   *)
(* trimmed text before its first plain delimiter is handed to the parser   *)
(* (the whole trimmed piece when it holds none).  A response without any   *)
(* delimiter is handed over unchanged and untrimmed.                       *)
(***************************************************************************)
C16_FirstPieceExtraction ==
  pc = "parse" =>
    IF C16_Contains(content.v, S("~~~json"))
    THEN shot_list_text.v =
           Strip(C16_UpTo(C16_UpTo(C16_After(content.v, S("~~~json")),
                                   S("~~~json")), S("~~~")))
    ELSE IF C16_Contains(content.v, S("~~~"))
    THEN shot_list_text.v =
           Strip(C16_UpTo(C16_After(content.v, S("~~~")), S("~~~")))
    ELSE shot_list_text = content

\* a JSON code block was reduced to its trimmed body
C16_Witness ==
  /\ pc = "parse"
  /\ content.v = S("~~~json") \o S(" ") \o S("{}") \o S("~~~")
  /\ shot_list_text.v = S("{}")

\* a plain code block was reduced to its trimmed body
C16_PlainBlock ==
  /\ pc = "parse"
  /\ content.v = S("~~~") \o S("\n") \o S("{}") \o S("~~~")
  /\ shot_list_text.v = S("{}")

\* a response without delimiters kept its surrounding white space
C16_RawUntrimmed ==
  /\ pc = "parse"
  /\ content.v = S(" ") \o S("{}") \o S("\n")
  /\ shot_list_text = content

\* the entries of an analysis document
C17_Videos(doc) == doc.v[S("videos")].v

\* the position of a file in the folder's listing
C17_Position(name) == CHOOSE k \in DOMAIN folder.v : folder.v[k] = name

\* the run went past the connection test and has returned
C17_Completed == pc = "done" /\ ~In(S("error"), result)

(***************************************************************************)
(* C17.  Failure containment in the batch: whatever the probe, the frame   *)
(* extractions, the image descriptions and the content analysis return for *)
(* a clip, the run completes, and its result holds exactly one entry for   *)
(* each video file of the folder, in the order in which the files were     *)
(* listed, and none for any other file.                                    *)
(***************************************************************************)
C17_FailureContainment ==
  C17_Completed =>
    /\ exception = None
    /\ \A name \in {S("a.mp4"), S("B.MOV")} :
         (\E k \in DOMAIN folder.v : folder.v[k] = name) =>
           \E j \in DOMAIN C17_Videos(result) :
             /\ C17_Videos(result)[j].v[S("filename")] = Str(name)
             /\ \A k \in DOMAIN C17_Videos(result) :
                  C17_Videos(result)[k].v[S("filename")] = Str(name) => k = j
    /\ \A j \in DOMAIN C17_Videos(result) :
         /\ C17_Videos(result)[j].v[S("filename")].v \in {S("a.mp4"), S("B.MOV")}
         /\ \E k \in DOMAIN folder.v :
              folder.v[k] = C17_Videos(result)[j].v[S("filename")].v
    /\ \A j, k \in DOMAIN C17_Videos(result) :
         j < k => C17_Position(C17_Videos(result)[j].v[S("filename")].v)
                    < C17_Position(C17_Videos(result)[k].v[S("filename")].v)

\* the probe failed for the first clip and the second was analysed in full
C17_Witness ==
  /\ C17_Completed
  /\ Len(C17_Videos(result)) = 2
  /\ In(S("error"), C17_Videos(result)[1])
  /\ In(S("video_description"), C17_Videos(result)[2])
  /\ C17_Videos(result)[2].v[S("video_description")] = Str(S("x"))

\* a frame extraction and a description call failed for the first clip and
\* the second was analysed in full
C17_FrameAndCallFailed ==
  /\ C17_Completed
  /\ Len(C17_Videos(result)) = 2
  /\ In(S("first_frame"), C17_Videos(result)[1])
  /\ C17_Videos(result)[1].v[S("first_frame")].v[S("description")] = None
  /\ C17_Videos(result)[1].v[S("last_frame")].v[S("description")] =
       Str(S("Error: Could not generate description."))
  /\ In(S("video_description"), C17_Videos(result)[2])
  /\ C17_Videos(result)[2].v[S("video_description")] = Str(S("x"))

\* the entry of a written analysis has the frame and the frame has a path
C19_HasPath(video, frame) ==
  In(frame, video) /\ In(S("path"), video.v[frame])

(***************************************************************************)
(* C19.  Persisted analysis document: no video entry of a written analysis *)
(* file carries a path under first_frame or under last_frame.              *)
(***************************************************************************)
C19_NoPathPersisted ==
  output_file # None =>
    \A k \in DOMAIN C17_Videos(output_file) :
      /\ ~C19_HasPath(C17_Videos(output_file)[k], S("first_frame"))
      /\ ~C19_HasPath(C17_Videos(output_file)[k], S("last_frame"))

\* an analysis was written whose first clip had both frames extracted and
\* described: the descriptions are in the file
C19_Witness ==
  /\ pc = "done"
  /\ output_file # None
  /\ Len(C17_Videos(output_file)) = 2
  /\ In(S("first_frame"), C17_Videos(output_file)[1])
  /\ C17_Videos(output_file)[1].v[S("first_frame")] =
       Dict(S("description") :> Str(S("x")))
  /\ C17_Videos(output_file)[1].v[S("last_frame")] =
       Dict(S("description") :> Str(S("x")))
  /\ C17_Videos(output_file)[1].v[S("video_description")] = Str(S("x"))

(***************************************************************************)
(* C20.  Zero matching media files: when the folder holds no file with a   *)
(* supported video extension, the analysis run completes and its result    *)
(* has total_videos = 0 and no entries; when an output path is set, that   *)
(* document is written to it.                                              *)
(***************************************************************************)
C20_NoVideoFile ==
  \A k \in DOMAIN folder.v : folder.v[k] \notin {S("a.mp4"), S("B.MOV")}

C20_ZeroCountDocument ==
  (C17_Completed /\ C20_NoVideoFile) =>
    /\ exception = None
    /\ result.v[S("total_videos")] = PyInt(0)
    /\ C17_Videos(result) = <<>>
    /\ Truthy(output_json) => output_file = result

\* the part of C20 that the code has: the run completes and returns the
\* zero-count document
C20_ZeroCountReturned ==
  (C17_Completed /\ C20_NoVideoFile) =>
    /\ exception = None
    /\ result.v[S("total_videos")] = PyInt(0)
    /\ C17_Videos(result) = <<>>

\* a run over a folder without video files has returned, with an output path
C20_EmptyFolderRun ==
  /\ C17_Completed
  /\ C20_NoVideoFile
  /\ folder.v = <<S("n.txt")>>
  /\ Truthy(output_json)

\* a record was returned by extract_video_metadata
C18_Returned == pc = "done" /\ raw_metadata # None /\ result # None

\* the probe reported a duration
C18_DurationReported ==
  /\ In(S("format"), raw_metadata)
  /\ In(S("duration"), raw_metadata.v[S("format")])

\* some video stream reported a width and a height
C18_ResolutionReported ==
  /\ In(S("streams"), raw_metadata)
  /\ \E k \in DOMAIN raw_metadata.v[S("streams")].v :
       /\ In(S("codec_type"), raw_metadata.v[S("streams")].v[k])
       /\ raw_metadata.v[S("streams")].v[k].v[S("codec_type")] = Str(S("video"))
       /\ In(S("width"), raw_metadata.v[S("streams")].v[k])
       /\ In(S("height"), raw_metadata.v[S("streams")].v[k])

(***************************************************************************)
(* C18.  Metadata sentinels: every record returned by                      *)
(* extract_video_metadata has every documented field; duration_formatted   *)
(* is "00:00:00" when the probe reports no duration, and resolution_name   *)
(* is "unknown" when no video stream reports a width and a height.         *)
(***************************************************************************)
C18_MetadataSentinels ==
  C18_Returned =>
    /\ \A field \in {S("duration"), S("duration_formatted"), S("resolution"),
                      S("resolution_name"), S("aspect_ratio"),
                      S("video_codec"), S("audio_codec"), S("bitrate"),
                      S("fps"), S("filesize_mb")} : In(field, result)
    /\ ~C18_DurationReported =>
         /\ In(S("duration_formatted"), result)
         /\ result.v[S("duration_formatted")] = Str(S("00:00:00"))
    /\ ~C18_ResolutionReported =>
         /\ In(S("resolution_name"), result)
         /\ result.v[S("resolution_name")] = Str(S("unknown"))

\* the part of C18 that the code has: the eight fields of the initial
\* record are always present, and the two derived fields are present
\* exactly when the value they derive from was reported
C18_InitialFields ==
  C18_Returned =>
    /\ \A field \in {S("duration"), S("resolution"), S("aspect_ratio"),
                      S("video_codec"), S("audio_codec"), S("bitrate"),
                      S("fps"), S("filesize_mb")} : In(field, result)
    /\ In(S("duration_formatted"), result) <=> C18_DurationReported
    /\ In(S("resolution_name"), result) <=> C18_ResolutionReported
    /\ ~C18_DurationReported => result.v[S("duration")] = PyInt(0)
    /\ ~C18_ResolutionReported => result.v[S("resolution")] = Str(S("unknown"))

\* a record was returned for a probe that reported neither a duration nor a
\* resolution
C18_NothingReported ==
  /\ C18_Returned
  /\ ~C18_DurationReported
  /\ ~C18_ResolutionReported
  /\ In(S("streams"), raw_metadata)

\* the entries of `shots` before the repair step: none when the key is absent
C21_Existing(doc) == IF HasShotsList(doc) THEN ShotsOf(doc) ELSE <<>>

\* no entry of shots has `f` as its filename
C21_Absent(f, shots) ==
  \A i \in 1..Len(shots) :
    ~(/\ shots[i].t = "dict"
      /\ S("filename") \in DOMAIN shots[i].v
      /\ shots[i].v[S("filename")] = f)

C21_Unique(fns) ==
  \A i, j \in 1..Len(fns) : fns[i] = fns[j] => i = j

\* `after` is `before` followed by one entry for each identifier of
\* `absent`, in that order
C21_ToppedUp(before, after, absent) ==
  /\ Len(after) = Len(before) + Len(absent)
  /\ SubSeq(after, 1, Len(before)) = before
  /\ \A k \in 1..Len(absent) :
       /\ after[Len(before) + k].t = "dict"
       /\ S("filename") \in DOMAIN after[Len(before) + k].v
       /\ after[Len(before) + k].v[S("filename")] = absent[k]

\* the clip has a video_info
C21_Usable(f) ==
  \E j \in 1..Len(videos_info.v) : videos_info.v[j].v[S("filename")] = f

(***************************************************************************)
(* C21.  Order-preserving top-up: with the identifiers of all_filenames    *)
(* unique, a repair step that completes leaves the existing entries in     *)
(* place and appends after them exactly one entry for each identifier of   *)
(* all_filenames that no existing entry names, in the order of             *)
(* all_filenames, and none for an identifier already present.  The code    *)
(* appends an entry only for a clip that has a video_info (see C1).        *)
(***************************************************************************)
C21_OrderPreservingTopUp ==
  [][(pc = "repair" /\ pc' = "revalidate" /\ C21_Unique(all_filenames.v)) =>
       C21_ToppedUp(C21_Existing(shot_list), ShotsOf(shot_list'),
                    SelectSeq(all_filenames.v,
                              LAMBDA f : C21_Absent(f, C21_Existing(shot_list))))]_vars

\* the part of C21 that the code has: the statement holds of the
\* identifiers whose clip has a usable description
C21_UsableTopUp ==
  [][(pc = "repair" /\ pc' = "revalidate" /\ C21_Unique(all_filenames.v)) =>
       C21_ToppedUp(C21_Existing(shot_list), ShotsOf(shot_list'),
                    SelectSeq(all_filenames.v,
                              LAMBDA f : /\ C21_Absent(f, C21_Existing(shot_list))
                                         /\ C21_Usable(f)))]_vars

\* a repair has appended entries for b.mp4 and a.mp4, in the order of
\* all_filenames, after an existing entry for another clip
C21_TwoAppended ==
  /\ pc = "revalidate"
  /\ all_filenames = List(<<Str(S("b.mp4")), Str(S("a.mp4"))>>)
  /\ Len(ShotsOf(shot_list)) = 3
  /\ ShotsOf(shot_list)[1] = GoodShot(S("z.mp4"))
  /\ ShotsOf(shot_list)[2].v[S("filename")] = Str(S("b.mp4"))
  /\ ShotsOf(shot_list)[3].v[S("filename")] = Str(S("a.mp4"))

\* the first key of `keys` that is not in x
C22_FirstMissing(keys, x) ==
  keys[CHOOSE i \in 1..Len(keys) :
         ~In(keys[i], x) /\ \A j \in 1..(i - 1) : In(keys[j], x)]

\* the end of the message for the value of a time field, <<>> when the value
\* passes.  With `strict`, a negative component counts as a component that
\* does not parse; without it, as a component out of range.
C22_FieldError(x, strict) ==
  IF x.t # "str" THEN S("' must be a string")
  ELSE IF Cardinality(Colons(x.v)) # 2 THEN S("' must be in format 'HH:MM:SS'")
  ELSE LET i == CHOOSE i \in Colons(x.v) : \A j \in Colons(x.v) : i <= j
           j == CHOOSE j \in Colons(x.v) : \A i2 \in Colons(x.v) : i2 <= j
           h == int(SubSeq(x.v, 1, i - 1))
           m == int(SubSeq(x.v, i + 1, j - 1))
           sec == int(SubSeq(x.v, j + 1, Len(x.v)))
       IN IF h.raised \/ m.raised \/ sec.raised
          THEN S("' must contain numeric values")
          ELSE IF strict /\ (h.value < 0 \/ m.value < 0 \/ sec.value < 0)
          THEN S("' must contain numeric values")
          ELSE IF h.value < 0 \/ m.value \notin 0..59 \/ sec.value \notin 0..59
          THEN S("' contains invalid time values")
          ELSE <<>>

\* the value that stands for "the check cannot be made": no message
C22_NoResult == [t |-> "raises"]

\* the message for entry number n, None when the entry passes
C22_EntryError(shot, n, strict) ==
  IF ~SupportsIn(shot) THEN C22_NoResult
  ELSE IF \E k \in Range(shot_keys) : ~In(k, shot)
  THEN Str(S("Shot ") \o IntToStr(n) \o S(" is missing required key: '")
           \o C22_FirstMissing(shot_keys, shot) \o S("'"))
  ELSE IF shot.t # "dict" THEN C22_NoResult
  ELSE IF \E k \in Range(time_keys) : C22_FieldError(shot.v[k], strict) # <<>>
  THEN LET key == time_keys[CHOOSE i \in 1..3 :
                    /\ C22_FieldError(shot.v[time_keys[i]], strict) # <<>>
                    /\ \A j \in 1..(i - 1) :
                         C22_FieldError(shot.v[time_keys[j]], strict) = <<>>]
       IN Str(S("Shot ") \o IntToStr(n) \o S(": '") \o key
              \o C22_FieldError(shot.v[key], strict))
  ELSE None

\* the message of the first failing check in the stated order, None when
\* every check passes
C22_FirstError(doc, fns, strict) ==
  IF \E k \in Range(required_keys) : ~In(k, doc)
  THEN Str(S("Missing required key: '")
           \o C22_FirstMissing(required_keys, doc) \o S("'"))
  ELSE IF doc.t # "dict" THEN C22_NoResult
  ELSE IF doc.v[S("shots")].t # "list" THEN Str(S("'shots' must be an array"))
  ELSE IF ShotsOf(doc) = <<>> THEN Str(S("'shots' array cannot be empty"))
  ELSE IF \E i \in 1..Len(ShotsOf(doc)) :
            C22_EntryError(ShotsOf(doc)[i], i, strict) # None
  THEN LET first == CHOOSE i \in 1..Len(ShotsOf(doc)) :
                      /\ C22_EntryError(ShotsOf(doc)[i], i, strict) # None
                      /\ \A j \in 1..(i - 1) :
                           C22_EntryError(ShotsOf(doc)[j], j, strict) = None
       IN C22_EntryError(ShotsOf(doc)[first], first, strict)
  ELSE IF Truthy(fns) /\ Uncovered(fns, doc) # <<>>
  THEN Str(S("Shot list is missing the following files: ")
           \o Join(S(", "), [i \in 1..Len(Uncovered(fns, doc)) |->
                               Uncovered(fns, doc)[i].v]))
  ELSE None

(***************************************************************************)
(* C22.  Check order of the validator: the error returned is that of the   *)
(* first failing check in the order top-level keys, `shots` is a list,     *)
(* `shots` non-empty, the entries in index order (the seven fields, then   *)
(* for start_time, end_time, duration: string type, three components,      *)
(* integer parse, range), and last the missing clips.  As stated, a        *)
(* component that is not a non-negative integer gives the value error.     *)
(***************************************************************************)
C22_CheckOrder ==
  pc \in {"count", "repair"} =>
    /\ error_message = C22_FirstError(shot_list, all_filenames, TRUE)
    /\ is_valid = True <=> error_message = None

(***************************************************************************)
(* C22, as the code has it: the same order, where a component that is not  *)
(* an integer gives the value error, and a negative component, like        *)
(* minutes or seconds of 60 and more, gives the range error.               *)
(***************************************************************************)
C22_CheckOrderSigned ==
  pc \in {"count", "repair"} =>
    /\ error_message = C22_FirstError(shot_list, all_filenames, FALSE)
    /\ is_valid = True <=> error_message = None

\* a document with a malformed entry and a missing clip: the entry error is
\* reported
C22_Witness ==
  /\ pc = "repair"
  /\ all_filenames = List(<<Str(S("a.mp4")), Str(S("b.mp4"))>>)
  /\ shot_list = Document(List(<<Shot(Str(S("a.mp4")), Str(S("00:75:00")))>>))
  /\ error_message = Str(S("Shot ") \o <<"1">> \o S(": '") \o S("end_time")
                         \o S("' contains invalid time values"))

\* a negative component was reported as out of range
C22_NegativeComponent ==
  /\ pc = "repair"
  /\ HasShotsList(shot_list)
  /\ Len(ShotsOf(shot_list)) = 1
  /\ HasSevenFields(ShotsOf(shot_list)[1])
  /\ ShotsOf(shot_list)[1].v[S("start_time")] = Str(<<"-", "6", ":", "0", ":", "0">>)
  /\ error_message = Str(S("Shot ") \o <<"1">> \o S(": '") \o S("start_time")
                         \o S("' contains invalid time values"))

\* an entry with exactly the seven fields and the fixed values, for an
\* identifier that no entry of `before` names
C23_Synthesized(shot, before) ==
  /\ shot.t = "dict"
  /\ DOMAIN shot.v = Range(shot_keys)
  /\ \E i \in 1..Len(all_filenames.v) :
       /\ shot.v[S("filename")] = all_filenames.v[i]
       /\ C21_Absent(all_filenames.v[i], before)
  /\ shot.v[S("filename")].t = "str"
  /\ shot.v[S("description")] =
       Str(S("Added shot from ") \o shot.v[S("filename")].v)
  /\ shot.v[S("start_time")] = Str(S("00:00:00"))
  /\ shot.v[S("transition_in")] = Str(S("cut"))
  /\ shot.v[S("transition_out")] = Str(S("cut"))

(***************************************************************************)
(* C23.  Fixed fields of a synthesized entry: every entry the repair step  *)
(* appends has exactly the seven fields, the missing identifier as its     *)
(* filename, the description "Added shot from <filename>", start_time      *)
(* "00:00:00", transition_in and transition_out "cut"; its time fields are *)
(* well formed and the validator's checks of an entry pass on it.          *)
(***************************************************************************)
C23_SynthesizedEntry ==
  [][(pc = "repair" /\ pc' = "revalidate") =>
       \A k \in (Len(C21_Existing(shot_list)) + 1)..Len(ShotsOf(shot_list')) :
         /\ C23_Synthesized(ShotsOf(shot_list')[k], C21_Existing(shot_list))
         /\ WellFormedShot(ShotsOf(shot_list')[k])
         /\ check_shot(ShotsOf(shot_list')[k], k) = Passed]_vars

\* the repair has appended, to a document without `shots`, the entry for
\* b.mp4
C23_Witness ==
  /\ pc = "revalidate"
  /\ all_filenames = List(<<Str(S("b.mp4"))>>)
  /\ ShotsOf(shot_list) =
       <<Dict((S("filename") :> Str(S("b.mp4")))
           @@ (S("description") :> Str(S("Added shot from ") \o S("b.mp4")))
           @@ (S("start_time") :> Str(S("00:00:00")))
           @@ (S("end_time") :> Str(S("00:01:00")))
           @@ (S("duration") :> Str(S("00:01:00")))
           @@ (S("transition_in") :> Str(S("cut")))
           @@ (S("transition_out") :> Str(S("cut"))))>>

(***************************************************************************)
(* C24.  Document lifecycle: once parsed, the document is changed by the   *)
(* repair step only: not by a validation, not by the count of the shots,   *)
(* not by the save.  The save writes and returns the document as it is;    *)
(* so when the first validation succeeds (repair not run), the document    *)
(* written and returned is the parsed one, and after a repair it is the    *)
(* document the repair left.                                               *)
(***************************************************************************)
C24_DocumentLifecycle ==
  [][/\ (pc \notin {"generate", "repair"}) => shot_list' = shot_list
     /\ pc = "save" =>
          /\ result' = shot_list
          /\ Truthy(output_json_path) => output_file' = shot_list
          /\ ~Truthy(output_json_path) => output_file' = None
     /\ pc # "save" => output_file' = output_file]_vars

\* the first validation succeeded and the parsed document was written and
\* returned unrepaired
C24_Witness ==
  /\ pc = "done"
  /\ passes = 0
  /\ is_valid = True
  /\ shot_list = Document(List(<<GoodShot(S("a.mp4")), GoodShot(S("b.mp4"))>>))
  /\ output_file = shot_list
  /\ result = shot_list

\* the value of the field is there and not empty
C25_NonEmpty(x, key) ==
  /\ x.t = "dict"
  /\ key \in DOMAIN x.v
  /\ x.v[key] \notin {None, Str(<<>>)}

\* the description to use for a video, None when there is none
C25_Description(video) ==
  IF C25_NonEmpty(video, S("video_description"))
  THEN video.v[S("video_description")]
  ELSE IF C25_NonEmpty(video, S("content_analysis"))
  THEN video.v[S("content_analysis")]
  ELSE IF C25_NonEmpty(video, S("description"))
  THEN video.v[S("description")]
  ELSE IF C25_NonEmpty(video, S("content"))
  THEN video.v[S("content")]
  ELSE IF /\ S("first_frame") \in DOMAIN video.v
          /\ S("last_frame") \in DOMAIN video.v
          /\ C25_NonEmpty(video.v[S("first_frame")], S("description"))
          /\ C25_NonEmpty(video.v[S("last_frame")], S("description"))
  THEN Str(S("First frame: ")
           \o video.v[S("first_frame")].v[S("description")].v
           \o S("\n\nLast frame: ")
           \o video.v[S("last_frame")].v[S("description")].v)
  ELSE None

\* the input videos that have a description, and those that have a filename
C25_Described ==
  SelectSeq(analysis_data.v[S("videos")].v,
            LAMBDA video : C25_Description(video) # None)

C25_Named ==
  SelectSeq(analysis_data.v[S("videos")].v,
            LAMBDA video : S("filename") \in DOMAIN video.v)

(***************************************************************************)
(* C25.  Defensive description lookup: when the scan of the input videos   *)
(* completes, the videos passed to the generator are exactly those with a  *)
(* description, in input order, each with the first non-empty value among  *)
(* video_description, content_analysis, description, content, or else the  *)
(* text composed from the two frame descriptions when both are non-empty;  *)
(* and all_filenames holds the filename of every video that has one,       *)
(* described or not.                                                       *)
(***************************************************************************)
C25_DescriptionLookup ==
  videos_info # None =>
    /\ Len(videos_info.v) = Len(C25_Described)
    /\ \A k \in 1..Len(C25_Described) :
         /\ videos_info.v[k].v[S("content")] = C25_Description(C25_Described[k])
         /\ videos_info.v[k].v[S("filename")] = C25_Described[k].v[S("filename")]
    /\ all_filenames.v = [k \in 1..Len(C25_Named) |-> C25_Named[k].v[S("filename")]]

\* video_description is empty and content_analysis is used, before
\* description and content
C25_Witness ==
  /\ pc = "generate"
  /\ Len(analysis_data.v[S("videos")].v) = 2
  /\ analysis_data.v[S("videos")].v[1] = UnusableVideo(S("b.mp4"))
  /\ DOMAIN analysis_data.v[S("videos")].v[2].v =
       Range(description_fields) \cup {S("filename")}
  /\ analysis_data.v[S("videos")].v[2].v[S("video_description")] = Str(<<>>)
  /\ videos_info.v = <<Dict((S("filename") :> Str(S("a.mp4")))
                          @@ (S("content") :> Str(S("content_analysis")))
                          @@ (S("duration") :> Str(S("unknown")))
                          @@ (S("duration_seconds") :> PyInt(0)))>>
  /\ all_filenames.v = <<Str(S("b.mp4")), Str(S("a.mp4"))>>

\* no field is set and the description is composed from the two frames
C25_Composed ==
  /\ pc = "generate"
  /\ Len(videos_info.v) = 1
  /\ videos_info.v[1].v[S("content")] =
       Str(S("First frame: ") \o S("x") \o S("\n\nLast frame: ") \o S("fade"))


\* C25 as stated, for every input: once the scan has run, every described
\* video has been passed on.  A described video without a filename ends the
\* scan with a KeyError (line 140) and nothing is passed on.
C25_DescribedAlwaysPassed ==
  pc # "load" =>
    /\ videos_info # None
    /\ Len(videos_info.v) = Len(C25_Described)

\* the top-level keys that repair may add
C26_Defaults == {S("shots"), S("project_name"), S("narrative_theme")}

\* `after` begins with the entries of `before`, unaltered and in order
C26_Extends(before, after) ==
  /\ Len(after) >= Len(before)
  /\ SubSeq(after, 1, Len(before)) = before

(***************************************************************************)
(* C26.  Repair preserves what the generator supplied: a completed repair  *)
(* step keeps every top-level key and, `shots` apart, its value (a         *)
(* project_name or narrative_theme that is present is never overwritten,   *)
(* whatever its value); it adds no key other than shots, project_name and  *)
(* narrative_theme; and the `shots` it leaves begins with the entries that *)
(* were there, unaltered and in the same order.                            *)
(***************************************************************************)
C26_RepairPreserves ==
  [][(pc = "repair" /\ pc' = "revalidate") =>
       /\ shot_list.t = "dict" /\ shot_list'.t = "dict"
       /\ DOMAIN shot_list.v \subseteq DOMAIN shot_list'.v
       /\ DOMAIN shot_list'.v \subseteq DOMAIN shot_list.v \cup C26_Defaults
       /\ \A key \in DOMAIN shot_list.v \ {S("shots")} :
            shot_list'.v[key] = shot_list.v[key]
       /\ S("shots") \in DOMAIN shot_list.v =>
            IF shot_list.v[S("shots")].t = "list"
            THEN /\ shot_list'.v[S("shots")].t = "list"
                 /\ C26_Extends(shot_list.v[S("shots")].v,
                                shot_list'.v[S("shots")].v)
            ELSE shot_list'.v[S("shots")] = shot_list.v[S("shots")]]_vars

\* an empty project_name and a null narrative_theme are kept while an entry
\* is appended
C26_Witness ==
  /\ pc = "revalidate"
  /\ shot_list.t = "dict"
  /\ DOMAIN shot_list.v = C26_Defaults
  /\ shot_list.v[S("project_name")] = Str(<<>>)
  /\ shot_list.v[S("narrative_theme")] = None
  /\ Len(ShotsOf(shot_list)) = 1

\* an entry with an invalid time is kept as it was, ahead of the appended one
C26_EntryKept ==
  /\ pc = "revalidate"
  /\ HasShotsList(shot_list)
  /\ Len(ShotsOf(shot_list)) = 2
  /\ ShotsOf(shot_list)[1] = Shot(Str(S("a.mp4")), Str(S("00:75:00")))
  /\ ShotsOf(shot_list)[2].v[S("filename")] = Str(S("b.mp4"))

\* the run ended without reaching line 286: no videos, no usable
\* description, an unparsable response, or a caught exception
C27_EarlyExit == pc = "done" /\ (exception # None \/ is_valid = None)

(***************************************************************************)
(* C27.  Return value and output file agree: with an output path given,    *)
(* nothing is written or returned while the function runs; when it ends,   *)
(* what it returns is what the output file holds (None for no file); after *)
(* an early exit both are None, and otherwise both are the document.       *)
(***************************************************************************)
C27_ReturnAndFileAgree ==
  Truthy(output_json_path) =>
    /\ pc # "done" => result = None /\ output_file = None
    /\ pc = "done" => output_file = result
    /\ C27_EarlyExit => result = None /\ output_file = None
    /\ (pc = "done" /\ ~C27_EarlyExit) => result # None /\ result = shot_list

\* a document is written and returned
C27_Witness ==
  /\ pc = "done"
  /\ Truthy(output_json_path)
  /\ result # None
  /\ output_file = result

\* an exception after the document was parsed: nothing written, None returned
C27_CaughtAfterParse ==
  /\ pc = "done"
  /\ Truthy(output_json_path)
  /\ exception # None
  /\ shot_list \notin {None, EmptyDict}
  /\ shot_list.t = "dict"
  /\ result = None
  /\ output_file = None

\* the early exits without an exception
C27_NoVideos ==
  /\ pc = "done"
  /\ Truthy(output_json_path)
  /\ exception = None
  /\ videos_info = None
  /\ result = None /\ output_file = None

C27_Unparsable ==
  /\ pc = "done"
  /\ Truthy(output_json_path)
  /\ exception = None
  /\ Truthy(videos_info)
  /\ shot_list = None
  /\ result = None /\ output_file = None

\* total_videos of the document is the number of its entries
C28_Counted(doc) ==
  doc.v[S("total_videos")] = PyInt(Len(doc.v[S("videos")].v))

(***************************************************************************)
(* C28.  Count invariant of result documents: in the document returned,    *)
(* and in the document written, by analyze_videos_in_folder and by         *)
(* extract_metadata_from_folder, total_videos is the number of entries of  *)
(* `videos`.  extract_metadata_from_folder counts the files found and      *)
(* leaves out the entry of a file whose probe fails.                       *)
(***************************************************************************)
C28_CountInvariant ==
  pc = "done" =>
    /\ C28_Counted(result)
    /\ output_file # None => C28_Counted(output_file)

\* C28 as the code has it: the count is exact for analyze_videos_in_folder,
\* and for extract_metadata_from_folder no entry is uncounted
C28_CountOfAnalyses ==
  pc = "done" =>
    /\ all_metadata = None =>
         /\ C28_Counted(result)
         /\ output_file # None => C28_Counted(output_file)
    /\ all_metadata # None =>
         /\ result = all_metadata
         /\ output_file \in {None, all_metadata}
         /\ Len(result.v[S("videos")].v) <= result.v[S("total_videos")].v

\* analyze_videos_in_folder: of two files one could not be probed, and the
\* document written counts both entries
C28_Witness ==
  /\ pc = "done"
  /\ all_metadata = None
  /\ output_file = result
  /\ result.v[S("total_videos")] = PyInt(2)
  /\ Len(result.v[S("videos")].v) = 2
  /\ In(S("error"), result.v[S("videos")].v[1])
  /\ In(S("metadata"), result.v[S("videos")].v[2])

\* extract_metadata_from_folder: of two files one could not be probed
C28_ProbeFailedInFolder ==
  /\ pc = "done"
  /\ all_metadata # None
  /\ output_file = result
  /\ result.v[S("total_videos")] = PyInt(2)
  /\ Len(result.v[S("videos")].v) = 1

(***************************************************************************)
(* C29.  Saving does not change the returned analysis: the value that      *)
(* analyze_videos_in_folder returns after the save step is all_analyses as *)
(* it was before the step, the `path` of every frame included.             *)
(***************************************************************************)
C29_ReturnedUnchanged ==
  [][pc = "save" => result' = all_analyses]_vars

\* C29 as the code has it: with an output path the value returned is the
\* value written, and without one it is all_analyses as it was
C29_ReturnedIsWritten ==
  [][pc = "save" =>
       IF Truthy(output_json)
       THEN result' = output_file' /\ result' = all_analyses'
       ELSE result' = all_analyses /\ output_file' = output_file]_vars

\* a file was written, and the frames of the entry returned have no path
C29_Witness ==
  /\ pc = "done"
  /\ Truthy(output_json)
  /\ output_file = result
  /\ Len(result.v[S("videos")].v) = 1
  /\ In(S("first_frame"), result.v[S("videos")].v[1])
  /\ result.v[S("videos")].v[1].v[S("first_frame")].v[S("description")] = Str(S("x"))
  /\ ~In(S("path"), result.v[S("videos")].v[1].v[S("first_frame")])
  /\ ~In(S("path"), result.v[S("videos")].v[1].v[S("last_frame")])

\* the whole seconds of the duration of the record
C30_Seconds == metadata.v[S("duration")].v[1] \div metadata.v[S("duration")].v[2]

\* the three fields of the duration_formatted of the record
C30_Fields == Split(metadata.v[S("duration_formatted")].v, ":")

\* a field of two digits at least, read as a number
C30_Reads(field, n) ==
  /\ Len(field) >= 2
  /\ \A k \in 1..Len(field) : IsDigit(field[k])
  /\ DecimalValue(field) = n

(***************************************************************************)
(* C30.  Prober output is accepted by the validator: the duration_formatted*)
(* of a record built by extract_video_metadata has three fields between    *)
(* colons that read HH = d div 3600, MM = (d mod 3600) div 60 and          *)
(* SS = d mod 60 for the whole seconds d of the duration, and an entry     *)
(* whose time fields hold it passes the checks of the validator.           *)
(***************************************************************************)
C30_ProberTimeAccepted ==
  (pc = "done" /\ metadata # None /\ In(S("duration_formatted"), metadata)) =>
    /\ Len(C30_Fields) = 3
    /\ C30_Reads(C30_Fields[1], C30_Seconds \div 3600)
    /\ C30_Reads(C30_Fields[2], (C30_Seconds % 3600) \div 60)
    /\ C30_Reads(C30_Fields[3], C30_Seconds % 60)
    /\ check_shot(Shot(Str(S("a.mp4")), metadata.v[S("duration_formatted")]), 1)
         = Passed
    /\ check_time(metadata.v[S("duration_formatted")],
                  ShotKey(1, S("duration"))) = Passed

\* a duration of a hundred hours
C30_Witness ==
  /\ pc = "done"
  /\ metadata # None
  /\ In(S("duration_formatted"), metadata)
  /\ C30_Seconds = 360000
  /\ metadata.v[S("duration_formatted")] = Str(S("100:00:00"))

\* the last second of an hour
C30_LastSecond ==
  /\ pc = "done"
  /\ metadata # None
  /\ In(S("duration_formatted"), metadata)
  /\ C30_Seconds = 3599
  /\ C30_Fields = <<<<"0", "0">>, S("59"), S("59")>>

====
